---- MODULE Spec2Model ----
(***************************************************************************)
(* Model of the circuit breaker and of the guarded call of the cidb-2.0    *)
(* multi-account producer:                                                 *)
(*   src/infrastructure/modules/cidb-2.0-multiaccount/src/cidb2_producer/  *)
(*       circuit_breaker.py                                                *)
(* One shared CircuitBreaker instance is driven by direct calls (any       *)
(* caller thread) and by threads that run a function decorated with        *)
(* CircuitBreakerDecorator.  Every method body runs under the breaker's    *)
(* RLock, so a method call is one atomic step; the steps of the decorator  *)
(* wrapper (allow_request, the wrapped function, the record call)          *)
(* interleave with the other threads.                                      *)
(*                                                                         *)
(* Further parts, each with its own specification:                         *)
(*   SiteSpec      the call sites of the decorated functions in            *)
(*                 cidb2_producer.py (list_policy_properties_multi_account)*)
(*   RaceSpec      record_failure taken apart into its accesses to the     *)
(*                 breaker, run by several threads under the RLock         *)
(*   LockSpec      the S3 lock functions of the reporter,                  *)
(*                 cidb-2.0-pre-multiaccount/src/cidb2_reporter/           *)
(*                 s3_locking.py, called by two processes in any order     *)
(*   WriteSpec     write_with_lock of s3_locking.py called once by each    *)
(*                 of two processes on one key                             *)
(*   OrchSpec      one call of list_policy_properties_multi_account of     *)
(*                 cidb2_producer.py: two account tasks, their policy      *)
(*                 tasks and the three shared breakers                     *)
(*   OrchLiveSpec  the same call with every thread scheduled, for          *)
(*                 termination                                             *)
(*   BreakerSpec   the breaker's methods called directly, with a tally of  *)
(*                 the failures counted since it was last at rest          *)
(***************************************************************************)
EXTENDS Integers, FiniteSets, Sequences, TLC

(* ------------------------------ bounds -------------------------------- *)
\* failure_threshold ranges over 1..MaxThreshold
MaxThreshold == 2
\* recovery_timeout ranges over 1..MaxRecovery
MaxRecovery == 1
\* reset_timeout ranges over 1..MaxReset
MaxReset == 2
\* the clock advances at most MaxTime seconds past the construction time
MaxTime == 3
\* failure_count is capped here (it grows without bound while OPEN)
MaxCount == 3
\* the lock timeout in seconds (LOCK_TIMEOUT_SECONDS, scaled to the clock)
LockTimeout == 1
\* max_attempts of write_with_lock (LOCK_MAX_ATTEMPTS, scaled)
MaxAttempts == 2
\* at most this many lock ids are generated
MaxLockIds == 3
\* the clock of the lock functions advances at most LockMaxTime seconds
LockMaxTime == 2
\* failure_threshold of the orchestrator's three breakers (3, 3 and 5 in the
\* source, scaled to the number of accounts and policies of the model)
OrchThreshold == 1
\* recovery_timeout of the orchestrator's breakers (60, 30 and 15 seconds
\* in the source, scaled to the clock)
OrchRecovery == 1
\* the clock advances at most this far during one orchestrator call
OrchMaxTime == 1

\* time.time() at construction: epoch seconds, larger than every timeout
Epoch == MaxRecovery + MaxReset + 1

\* Threads that call a decorated function.  The breaker calls of all other
\* threads (their wrappers' included) are the direct calls below, which may
\* happen between any two steps of a wrapper.
Threads == {"t1"}

(* --------------------------- program constants ------------------------ *)
CLOSED == "CLOSED"
OPEN == "OPEN"
HALF_OPEN == "HALF-OPEN"
CircuitStates == {CLOSED, OPEN, HALF_OPEN}

\* the decorated functions of list_policy_properties_multi_account
Sites == {"assume_role", "list_policies", "policy_tags"}

CIRCUIT_BREAKER_ERRORS ==
    { "ThrottlingException", "RequestThrottled", "TooManyRequestsException",
      "ServiceUnavailable", "InternalError", "ConnectionError",
      "EndpointConnectionError" }

(* ------------------------------- errors ------------------------------- *)
\* An error argument: kind is "None" (no error object), "ClientError"
\* (botocore ClientError; hasCode says whether response["Error"]["Code"]
\* is present, code is its value) or "Exception" (any other exception;
\* code is then the exception's class name, which the breaker never reads).
NoError == [kind |-> "None", hasCode |-> FALSE, code |-> ""]
ClientError(c) == [kind |-> "ClientError", hasCode |-> TRUE, code |-> c]
ClientErrorNoCode == [kind |-> "ClientError", hasCode |-> FALSE, code |-> ""]
OtherException(c) == [kind |-> "Exception", hasCode |-> FALSE, code |-> c]

\* exceptions a wrapped function can raise
RaisedErrors ==
    { ClientError("ThrottlingException"), ClientError("AccessDenied"),
      ClientErrorNoCode, OtherException("ConnectionError") }

\* arguments a direct record_failure call can pass
Errors == RaisedErrors \cup {NoError}

extract_error_code(error) ==
    IF error.kind = "ClientError"
    THEN IF error.hasCode THEN error.code ELSE "Unknown"
    ELSE "Unknown"

\* record_failure's should_trigger flag
should_trigger(error) ==
    IF error.kind # "None" /\ error.kind = "ClientError"
    THEN extract_error_code(error) \in CIRCUIT_BREAKER_ERRORS
    ELSE TRUE

(* ------------------------------ breaker ------------------------------- *)
\* CircuitBreaker.__init__ at time t
NewBreaker(ft, rec, rst, t) ==
    [ failure_threshold |-> ft,
      recovery_timeout  |-> rec,
      reset_timeout     |-> rst,
      state             |-> CLOSED,
      failure_count     |-> 0,
      last_failure_time |-> 0,
      last_success_time |-> t ]

\* reset_failure_count measuring the quiet period against recovery_timeout
reset_failure_count_wrong_timeout(b, t) ==
    IF /\ b.state = CLOSED
       /\ b.failure_count > 0
       /\ t - b.last_failure_time > b.reset_timeout + b.recovery_timeout
    THEN [b EXCEPT !.failure_count = 0]
    ELSE b

\* the CLOSED self-loop of allow_request: failure count reset
reset_failure_count(b, t) ==
    IF /\ b.state = CLOSED
       /\ b.failure_count > 0
       /\ t - b.last_failure_time > b.reset_timeout
    THEN [b EXCEPT !.failure_count = 0]
    ELSE b

\* open_gate with the gate opening at the recovery_timeout instant
open_gate_at_timeout(b, t) ==
    IF t - b.last_failure_time >= b.recovery_timeout
    THEN [cb |-> [b EXCEPT !.state = HALF_OPEN], ret |-> TRUE]
    ELSE [cb |-> b, ret |-> FALSE]

\* open_gate clearing the failure count when it flips to HALF-OPEN
open_gate_clears_count(b, t) ==
    IF t - b.last_failure_time > b.recovery_timeout
    THEN [cb |-> [b EXCEPT !.state = HALF_OPEN, !.failure_count = 0],
          ret |-> TRUE]
    ELSE [cb |-> b, ret |-> FALSE]

\* the OPEN branch of allow_request
open_gate(b, t) ==
    IF t - b.last_failure_time > b.recovery_timeout
    THEN [cb |-> [b EXCEPT !.state = HALF_OPEN], ret |-> TRUE]
    ELSE [cb |-> b, ret |-> FALSE]

\* allow_request admitting a single probe: HALF-OPEN refuses
allow_request_single_probe(b, t) ==
    IF b.state = HALF_OPEN
    THEN [cb |-> b, ret |-> FALSE]
    ELSE IF b.state = OPEN
         THEN IF t - b.last_failure_time > b.recovery_timeout
              THEN [cb |-> [b EXCEPT !.state = HALF_OPEN], ret |-> TRUE]
              ELSE [cb |-> b, ret |-> FALSE]
         ELSE [cb |-> IF b.failure_count > 0
                         /\ t - b.last_failure_time > b.reset_timeout
                      THEN [b EXCEPT !.failure_count = 0] ELSE b,
               ret |-> TRUE]

\* CircuitBreaker.allow_request at time t: the breaker afterwards and the
\* value returned
allow_request(b, t) ==
    LET b1 == reset_failure_count(b, t)
    IN  IF b1.state = OPEN
        THEN open_gate(b1, t)
        ELSE [cb |-> b1, ret |-> TRUE]

\* record_success closing an OPEN circuit as well
record_success_closes_open(b, t) ==
    LET b1 == [b EXCEPT !.last_success_time = t]
        b2 == IF b1.state \in {HALF_OPEN, OPEN}
              THEN [b1 EXCEPT !.state = CLOSED, !.failure_count = 0]
              ELSE b1
    IN  [cb |-> b2, ret |-> b2.state]

\* record_success clearing the failure count in every state
record_success_clears_count(b, t) ==
    LET b1 == [b EXCEPT !.last_success_time = t, !.failure_count = 0]
        b2 == IF b1.state = HALF_OPEN THEN [b1 EXCEPT !.state = CLOSED] ELSE b1
    IN  [cb |-> b2, ret |-> b2.state]

\* record_success closing the circuit without clearing the count
record_success_keeps_count(b, t) ==
    LET b1 == [b EXCEPT !.last_success_time = t]
        b2 == IF b1.state = HALF_OPEN
              THEN [b1 EXCEPT !.state = CLOSED]
              ELSE b1
    IN  [cb |-> b2, ret |-> b2.state]

\* CircuitBreaker.record_success at time t
record_success(b, t) ==
    LET b1 == [b EXCEPT !.last_success_time = t]
        b2 == IF b1.state = HALF_OPEN
              THEN [b1 EXCEPT !.state = CLOSED, !.failure_count = 0]
              ELSE b1
    IN  [cb |-> b2, ret |-> b2.state]

\* count_failure opening one failure before the threshold
count_failure_opens_early(b) ==
    LET b1 == [b EXCEPT !.failure_count = @ + 1]
    IN  IF b1.state = CLOSED /\ b1.failure_count >= b1.failure_threshold - 1
        THEN [b1 EXCEPT !.state = OPEN]
        ELSE IF b1.state = HALF_OPEN
             THEN [b1 EXCEPT !.state = OPEN]
             ELSE b1

\* count_failure opening only once the count exceeds the threshold
count_failure_above_threshold(b) ==
    LET b1 == [b EXCEPT !.failure_count = @ + 1]
    IN  IF b1.state = CLOSED /\ b1.failure_count > b1.failure_threshold
        THEN [b1 EXCEPT !.state = OPEN]
        ELSE IF b1.state = HALF_OPEN
             THEN [b1 EXCEPT !.state = OPEN]
             ELSE b1

\* count_failure without the HALF-OPEN branch
count_failure_no_reopen(b) ==
    LET b1 == [b EXCEPT !.failure_count = @ + 1]
    IN  IF b1.state = CLOSED /\ b1.failure_count >= b1.failure_threshold
        THEN [b1 EXCEPT !.state = OPEN]
        ELSE b1

\* the triggering branch of record_failure: count and maybe flip
count_failure(b) ==
    LET b1 == [b EXCEPT !.failure_count = @ + 1]
    IN  IF b1.state = CLOSED /\ b1.failure_count >= b1.failure_threshold
        THEN [b1 EXCEPT !.state = OPEN]
        ELSE IF b1.state = HALF_OPEN
             THEN [b1 EXCEPT !.state = OPEN]
             ELSE b1

\* CircuitBreaker.record_failure(error) at time t
record_failure(b, error, t) ==
    LET b1 == [b EXCEPT !.last_failure_time = t]
        b2 == IF should_trigger(error) THEN count_failure(b1) ELSE b1
    IN  [cb |-> b2, ret |-> b2.state]

\* CircuitBreaker.get_state
get_state(b) == b.state

\* reset that forgets to clear last_failure_time
reset_keeps_failure_time(b, t) ==
    LET b1 == [b EXCEPT !.state = CLOSED,
                        !.failure_count = 0,
                        !.last_success_time = t]
    IN  [cb |-> b1, ret |-> b1.state]

\* CircuitBreaker.reset at time t
reset(b, t) ==
    LET b1 == [b EXCEPT !.state = CLOSED,
                        !.failure_count = 0,
                        !.last_failure_time = 0,
                        !.last_success_time = t]
    IN  [cb |-> b1, ret |-> b1.state]

(* ------------------------------- state -------------------------------- *)
VARIABLES
    cb,      \* the shared CircuitBreaker instance (its slots)
    now,     \* time.time()
    gc,      \* per thread: the position of its decorated call
    last,    \* the most recent breaker method call: its name, its error
             \* argument, what it returned, and the state and failure_count
             \* it found
    streak,  \* consecutive triggering record_failure calls since the
             \* breaker was CLOSED with failure_count 0 (-1: none such)
    tally,   \* Transient record_failure calls since the breaker was CLOSED
             \* with failure_count 0, with nothing but record_success,
             \* allow_request and get_state calls among them (-1: none such)
    oc,      \* per thread: the orchestrator call site that is using the
             \* decorated function, and what it recorded on the breaker
    rlock,   \* the breaker's RLock: the thread that holds it, "" if free
    rf,      \* per thread inside record_failure: its position and the
             \* failure_count it has loaded
    lockObj, \* the S3 object <key>.lock: NoLock when absent, else its record
    dataObj, \* the rows of the S3 object <key> (the service's CSV)
    issued,  \* how many lock ids uuid4 has generated so far
    lp,      \* per reporter process: its position in a lock function or in
             \* the handler, its lock_id, its rows
    lastLock, \* history: the lock function call that completed last
    cbs,     \* the orchestrator's three breakers, by site name
    pool,    \* max_accounts_concurrency and max_workers of the call
    tasks,   \* account_list: per account task its account_id and what its
             \* role assumption is going to answer
    acct,    \* per account task: the position of process_account, its
             \* result, and what its remote calls answered
    pol,     \* per account task and listed policy: the position of
             \* process_policy and what the tag fetch answered
    main     \* the calling thread of list_policy_properties_multi_account:
             \* its position, the result map, the summary

\* list_policy_properties_multi_account
orchVars == <<cbs, pool, tasks, acct, pol, main>>
\* the S3 lock of the reporter and the object it protects
lockVars == <<lockObj, dataObj, issued, lp, lastLock>>
\* record_failure taken apart into its accesses to the shared breaker
raceVars == <<rlock, rf>>
\* the variables of the parts other than the breaker and the call sites
notOcVars == <<raceVars, lockVars, orchVars>>
\* the variables of the parts other than the breaker and its decorator
nonBreakerVars == <<oc, notOcVars>>

vars == <<cb, now, gc, last, streak, tally, nonBreakerVars>>

NoCall == [op |-> "none", ret |-> "", error |-> NoError, from |-> "", count |-> 0]
Call(op, ret, error) ==
    [op |-> op, ret |-> ret, error |-> error,
     from |-> cb.state, count |-> cb.failure_count]
\* allow_request returns a bool, the other methods the state string
BoolRet(x) == IF x THEN "True" ELSE "False"

\* threads that call record_failure on the shared breaker at the same time
RaceThreads == {"r1", "r2", "r3"}

\* processes (Lambda instances) calling the lock functions on the same
\* object key
Procs == {"p1", "p2"}

\* <key>.lock does not exist; lock ids start at 1
NoLock == [lock_id |-> 0, expires |-> 0]

\* a process outside every lock function, holding no lock id
IdleProc ==
    [ pc |-> "idle", lock_id |-> 0, released |-> FALSE, prev |-> "",
      attempt |-> 0, rows |-> {}, status |-> "",
      calls |-> [acquire |-> 0, break_stale |-> 0, writer |-> 0, release |-> 0],
      wret |-> "", rel_id |-> 0,
      content |-> NoLock, gen |-> 0, seen |-> NoLock ]

\* no lock function has completed yet
NoLockCall ==
    [ op |-> "none", p |-> "", ret |-> FALSE, id |-> 0, ok |-> TRUE,
      at |-> 0, before |-> NoLock, rec |-> NoLock, deleted |-> NoLock,
      again |-> FALSE, prev |-> "", issued |-> 0, got |-> NoLock ]

\* a thread that is at no call site
NoSite ==
    [ name |-> "", pc |-> "idle", remote |-> "", caught |-> NoError,
      successes |-> 0, failures |-> 0 ]

IdleCall ==
    [ pc |-> "idle", fallback |-> FALSE, allowed |-> FALSE,
      invoked |-> 0, recorded |-> 0, raised |-> NoError, outcome |-> "" ]

\* The error kinds in which the breaker's contract is stated: a ClientError
\* whose code is a listed throttling / unavailable / connectivity code is
\* Transient, a ClientError with any other code (or none) is Permanent, and
\* what carries no code at all (another exception, no error object) is
\* Unknown.
ErrorKind(error) ==
    IF error.kind = "ClientError"
    THEN IF error.hasCode /\ error.code \in CIRCUIT_BREAKER_ERRORS
         THEN "Transient" ELSE "Permanent"
    ELSE "Unknown"

\* the streak after call op(error) has left the breaker as b
StreakAfter(op, error, b) ==
    IF op = "record_failure" /\ ErrorKind(error) = "Transient" /\ streak >= 0
    THEN streak + 1
    ELSE IF b.state = CLOSED /\ b.failure_count = 0 THEN 0 ELSE -1

\* the tally after call op(error) has left the breaker as b
TallyAfter(op, error, b) ==
    IF b.state = CLOSED /\ b.failure_count = 0 THEN 0
    ELSE IF tally < 0 THEN -1
    ELSE IF op = "record_failure"
         THEN IF ErrorKind(error) = "Transient" THEN tally + 1 ELSE -1
         ELSE IF op \in {"record_success", "allow_request", "get_state"}
              THEN tally ELSE -1

(* -------------------------- orchestrator data -------------------------- *)
\* the account tasks of one call (the entries of account_list, in order)
Accounts == {"a1", "a2"}

AccountIds == {"111", "222"}

\* account_list in order
AccountOrder == <<"a1", "a2">>

\* the account_id values of the entries: pairwise distinct, or the same
\* account listed twice
IdAssignments ==
    { [a \in Accounts |-> IF a = "a1" THEN "111" ELSE "222"],
      [a \in Accounts |-> "111"] }

\* the policies an account's listing can return
Items == {"p1", "p2"}

\* the order of the policies in a listing
ItemOrder == <<"p1", "p2">>

\* what the listing of an account returns when it does not raise: up to
\* two policies in the first account, up to one in the second
Listings(a) ==
    IF a = "a1" THEN { {}, {"p1"}, {"p1", "p2"} } ELSE { {}, {"p1"} }

\* max_accounts_concurrency and max_workers
PoolSizes == {1, 2}

\* the errors the remote calls of the orchestrator raise: a Transient and a
\* Permanent ClientError and an exception that is no ClientError
OrchErrors ==
    { ClientError("ThrottlingException"), ClientError("AccessDenied"),
      OtherException("ConnectionError") }

\* client_base.assume_role returning None (its `except KeyError` / `except
\* Exception` around the session construction): no session, no exception
NoSession == [kind |-> "NoSession", hasCode |-> FALSE, code |-> ""]

\* iam_client.list_policy_tags answering {'Tags': []}: no exception, and
\* formatted_tags stays {}
NoTags == [kind |-> "NoTags", hasCode |-> FALSE, code |-> ""]

\* what client_base.assume_role answers
AssumeOutcomes == {NoError, NoSession} \cup OrchErrors

\* get_policy_tags_with_cb's except clause logs account_id, a variable of the
\* enclosing function that is assigned only in the loop collecting the
\* account results: before the first result is collected the reference
\* raises NameError
NameError == OtherException("NameError")

\* a process_account task that has not been submitted to the pool yet
UnsubmittedAccount ==
    [ pc |-> "unsubmitted", status |-> "", policies |-> {},
      assume_out |-> "", list_out |-> "", listed |-> {}, invoked |-> {},
      rejected |-> "" ]

\* a policy that was not listed
NoPolicy == [ pc |-> "none", out |-> "", tags |-> "", err |-> NoError ]

\* no entry in results['accounts'] under an account id
NoEntry == [ status |-> "", policies |-> {}, task |-> "" ]

\* no summary yet
NoSummary ==
    [ total_accounts |-> -1, successful_accounts |-> -1,
      failed_accounts |-> -1, circuit_open_accounts |-> -1,
      total_policies |-> -1, tagged_policies |-> -1, untagged_policies |-> -1 ]

\* the calling thread before the call
IdleMain ==
    [ pc |-> "idle", bound |-> FALSE, error |-> FALSE, rejected |-> "",
      results |-> [id \in AccountIds |-> NoEntry],
      all_policies |-> {}, summary |-> NoSummary ]

\* the state before any call, without the arguments of the orchestrator
InitExceptArguments ==
    /\ \E ft \in 1..MaxThreshold, rec \in 1..MaxRecovery, rst \in 1..MaxReset :
           cb = NewBreaker(ft, rec, rst, Epoch)
    /\ now = Epoch
    /\ gc = [t \in Threads |-> IdleCall]
    /\ last = NoCall
    /\ streak = 0
    /\ tally = 0
    /\ oc = [t \in Threads |-> NoSite]
    /\ rlock = ""
    /\ rf = [t \in RaceThreads |-> [pc |-> "idle", loaded |-> 0]]
    /\ lockObj = NoLock
    /\ dataObj = {"old"}
    /\ issued = 0
    /\ lp = [p \in Procs |-> IdleProc]
    /\ lastLock = NoLockCall
    /\ cbs = [s \in Sites |->
                NewBreaker(OrchThreshold, OrchRecovery, MaxReset, Epoch)]
    /\ acct = [a \in Accounts |-> UnsubmittedAccount]
    /\ pol = [a \in Accounts |-> [i \in Items |-> NoPolicy]]
    /\ main = IdleMain

Init ==
    /\ InitExceptArguments
    /\ pool = [max_accounts |-> 1, max_workers |-> 1]
    /\ tasks = [a \in Accounts |-> [id |-> "111"]]

(* --------------------------- direct calls ----------------------------- *)
\* time passes
Tick ==
    /\ now < Epoch + MaxTime
    /\ now' = now + 1
    /\ last' = NoCall
    /\ UNCHANGED <<cb, gc, streak, tally, nonBreakerVars>>

\* the common effect of a breaker method call with result r
Apply(op, r, error) ==
    /\ cb' = r.cb
    /\ last' = Call(op, r.ret, error)
    /\ streak' = StreakAfter(op, error, r.cb)
    /\ UNCHANGED tally
    /\ UNCHANGED now

AllowRequest ==
    LET r == allow_request(cb, now)
    IN  /\ Apply("allow_request", [cb |-> r.cb, ret |-> BoolRet(r.ret)], NoError)
        /\ UNCHANGED <<gc, nonBreakerVars>>

RecordSuccess ==
    /\ Apply("record_success", record_success(cb, now), NoError)
    /\ UNCHANGED <<gc, nonBreakerVars>>

RecordFailure(error) ==
    /\ record_failure(cb, error, now).cb.failure_count <= MaxCount
    /\ Apply("record_failure", record_failure(cb, error, now), error)
    /\ UNCHANGED <<gc, nonBreakerVars>>

Reset ==
    /\ Apply("reset", reset(cb, now), NoError)
    /\ UNCHANGED <<gc, nonBreakerVars>>

(* ----------------------- direct calls, tallied ------------------------ *)
\* The methods of one breaker called in any order by any threads, with the
\* tally of the Transient failures kept along.

\* the effect of a breaker method call with result r, tally included
TallyApply(op, r, error) ==
    /\ cb' = r.cb
    /\ last' = Call(op, r.ret, error)
    /\ streak' = StreakAfter(op, error, r.cb)
    /\ tally' = TallyAfter(op, error, r.cb)
    /\ UNCHANGED now

TAllowRequest ==
    LET r == allow_request(cb, now)
    IN  /\ TallyApply("allow_request", [cb |-> r.cb, ret |-> BoolRet(r.ret)],
                      NoError)
        /\ UNCHANGED <<gc, nonBreakerVars>>

TRecordSuccess ==
    /\ TallyApply("record_success", record_success(cb, now), NoError)
    /\ UNCHANGED <<gc, nonBreakerVars>>

TRecordFailure(error) ==
    /\ record_failure(cb, error, now).cb.failure_count <= MaxCount
    /\ TallyApply("record_failure", record_failure(cb, error, now), error)
    /\ UNCHANGED <<gc, nonBreakerVars>>

TReset ==
    /\ TallyApply("reset", reset(cb, now), NoError)
    /\ UNCHANGED <<gc, nonBreakerVars>>

\* get_state(): reads the state
GetState ==
    /\ TallyApply("get_state", [cb |-> cb, ret |-> get_state(cb)], NoError)
    /\ UNCHANGED <<gc, nonBreakerVars>>

BreakerNext ==
    \/ Tick
    \/ TAllowRequest
    \/ TRecordSuccess
    \/ \E error \in Errors : TRecordFailure(error)
    \/ TReset
    \/ GetState

\* one breaker, its methods called directly
BreakerSpec == Init /\ [][BreakerNext]_vars

(* ---------------------------- guarded call ---------------------------- *)
\* wrapper_denied falling through to the wrapped function
wrapper_denied_falls_through(g) ==
    [g EXCEPT !.pc = "allowed"]

\* CircuitBreakerDecorator.__call__.wrapper, the denied path: the fallback's
\* result if the decorator has a fallback, else CircuitBreakerOpenError
wrapper_denied(g) ==
    [g EXCEPT !.pc = "done",
              !.outcome = IF g.fallback THEN "fallback"
                          ELSE "CircuitBreakerOpenError"]

\* the wrapped function has run: it returned (error = NoError) or raised
wrapper_invoked(g, error) ==
    [g EXCEPT !.pc = IF error = NoError THEN "returned" ELSE "raised",
              !.invoked = @ + 1,
              !.raised = error]

\* the wrapper has recorded the outcome on the breaker and hands the result
\* (or re-raises the error) to its caller
wrapper_recorded(g) ==
    [g EXCEPT !.pc = "done",
              !.recorded = @ + 1,
              !.outcome = IF g.pc = "returned" THEN "result" ELSE "error"]

\* thread t calls a decorated function (decorator with or without fallback):
\* the wrapper first asks the breaker
GCAllow(t, fb) ==
    /\ gc[t].pc = "idle"
    /\ LET r == allow_request(cb, now)
       IN  /\ Apply("allow_request", [cb |-> r.cb, ret |-> BoolRet(r.ret)],
                    NoError)
           /\ gc' = [gc EXCEPT ![t] =
                        [IdleCall EXCEPT !.pc = IF r.ret THEN "allowed" ELSE "denied",
                                         !.fallback = fb,
                                         !.allowed = r.ret]]
    /\ UNCHANGED nonBreakerVars

GCDenied(t) ==
    /\ gc[t].pc = "denied"
    /\ gc' = [gc EXCEPT ![t] = wrapper_denied(gc[t])]
    /\ last' = NoCall
    /\ UNCHANGED <<cb, now, streak, tally, nonBreakerVars>>

\* the wrapped function runs outside the breaker's lock
GCInvoke(t, error) ==
    /\ gc[t].pc = "allowed"
    /\ gc' = [gc EXCEPT ![t] = wrapper_invoked(gc[t], error)]
    /\ last' = NoCall
    /\ UNCHANGED <<cb, now, streak, tally, nonBreakerVars>>

GCRecordSuccess(t) ==
    /\ gc[t].pc = "returned"
    /\ Apply("record_success", record_success(cb, now), NoError)
    /\ gc' = [gc EXCEPT ![t] = wrapper_recorded(gc[t])]
    /\ UNCHANGED nonBreakerVars

GCRecordFailure(t) ==
    /\ gc[t].pc = "raised"
    /\ record_failure(cb, gc[t].raised, now).cb.failure_count <= MaxCount
    /\ Apply("record_failure", record_failure(cb, gc[t].raised, now),
             gc[t].raised)
    /\ gc' = [gc EXCEPT ![t] = wrapper_recorded(gc[t])]
    /\ UNCHANGED nonBreakerVars

\* the caller has received the result; the thread may call again
GCReturn(t) ==
    /\ gc[t].pc = "done"
    /\ gc' = [gc EXCEPT ![t] = IdleCall]
    /\ last' = NoCall
    /\ UNCHANGED <<cb, now, streak, tally, nonBreakerVars>>

(* ----------------------- orchestrator call sites ----------------------- *)
\* cidb2_producer.py, list_policy_properties_multi_account: the three
\* decorated functions and what their callers do around them.  Each site has
\* its own breaker (assume_role_cb, list_cb, tag_cb); cb is the breaker of
\* the site a thread is calling, and each decorator has a fallback.
\* what the remote call of a site can answer: its result (NoError), a raised
\* error, or for the role assumption no session
RemoteResults(name) ==
    RaisedErrors \cup {NoError} \cup
        (IF name = "assume_role" THEN {NoSession} ELSE {})

\* the except clause inside the decorated function: assume_role_with_cb has
\* `except Exception`, get_policy_tags_with_cb has `except ClientError`,
\* list_policies_with_cb has none
site_catches(name, res) ==
    CASE name = "assume_role"   -> res.kind \in {"ClientError", "Exception"}
      [] name = "policy_tags"   -> res.kind = "ClientError"
      [] name = "list_policies" -> FALSE

\* the record_success the caller of the decorated function issues itself:
\* process_account after list_policies_with_cb returned, process_policy
\* after get_policy_tags_with_cb returned, and process_account at the end of
\* an account whose role assumption gave a session
site_records_success(name, remote) ==
    CASE name = "list_policies" -> TRUE
      [] name = "policy_tags"   -> TRUE
      [] name = "assume_role"   -> remote = "ok"

\* fallbacks that take whatever they are called with
fallback_accepts_any(name) == TRUE

\* the wrapper calls the fallback with the arguments of the decorated
\* function.  assume_role_fallback(account_info) takes the one argument of
\* assume_role_with_cb; list_policies_fallback() and tag_fallback(policy_arn)
\* are called with (iam_client, scope) and (iam_client, policy_arn) and
\* raise TypeError
fallback_accepts(name) == name = "assume_role"

\* the TypeError of a fallback called with the wrong number of arguments
FallbackError == [kind |-> "TypeError", hasCode |-> FALSE, code |-> ""]

\* the except clause of get_policy_tags_with_cb logs account_id, which is
\* assigned only when the calling thread collects an account result: until
\* then the log line raises NameError, before the clause's record_failure,
\* and the NameError reaches the wrapper
except_clause_raises(name) == name = "policy_tags" /\ ~main.bound

\* as_completed yields a first account result to the calling thread:
\* account_id is assigned
OCCollected ==
    /\ ~main.bound
    /\ main' = [main EXCEPT !.bound = TRUE]
    /\ last' = NoCall
    /\ UNCHANGED <<cb, now, gc, streak, tally, oc, raceVars, lockVars,
                   cbs, pool, tasks, acct, pol>>

\* thread t calls the decorated function of a site: the wrapper asks the
\* breaker
OCCall(t, name) ==
    /\ gc[t].pc = "idle" /\ oc[t].pc = "idle"
    /\ LET r == allow_request(cb, now)
       IN  /\ Apply("allow_request", [cb |-> r.cb, ret |-> BoolRet(r.ret)],
                    NoError)
           /\ gc' = [gc EXCEPT ![t] =
                        [IdleCall EXCEPT !.pc = IF r.ret THEN "allowed" ELSE "denied",
                                         !.fallback = TRUE,
                                         !.allowed = r.ret]]
    /\ oc' = [oc EXCEPT ![t] = [NoSite EXCEPT !.name = name, !.pc = "called"]]
    /\ UNCHANGED notOcVars

\* the breaker denied the call: the wrapper returns the fallback's result,
\* or the fallback's TypeError escapes to the caller with nothing recorded
OCDenied(t) ==
    /\ gc[t].pc = "denied" /\ oc[t].pc = "called"
    /\ gc' = [gc EXCEPT ![t] =
                 IF fallback_accepts(oc[t].name) THEN wrapper_denied(gc[t])
                 ELSE [gc[t] EXCEPT !.pc = "done", !.outcome = "error",
                                    !.raised = FallbackError]]
    /\ last' = NoCall
    /\ UNCHANGED <<cb, now, streak, tally, oc, notOcVars>>

\* the remote call inside the decorated function answers res: the function
\* catches it, or returns, or lets it escape to the wrapper
OCRemote(t, res) ==
    /\ gc[t].pc = "allowed" /\ oc[t].pc = "called"
    /\ res \in RemoteResults(oc[t].name)
    /\ IF site_catches(oc[t].name, res) /\ except_clause_raises(oc[t].name)
       THEN /\ oc' = [oc EXCEPT ![t].pc = "returned", ![t].remote = "failed"]
            /\ gc' = [gc EXCEPT ![t] = wrapper_invoked(gc[t], NameError)]
       ELSE IF site_catches(oc[t].name, res)
       THEN /\ oc' = [oc EXCEPT ![t].pc = "caught", ![t].remote = "failed",
                                ![t].caught = res]
            /\ UNCHANGED gc
       ELSE /\ oc' = [oc EXCEPT ![t].pc = "returned",
                                ![t].remote = IF res = NoError THEN "ok"
                                              ELSE "failed"]
            /\ gc' = [gc EXCEPT ![t] =
                         wrapper_invoked(gc[t], IF res = NoSession THEN NoError
                                                ELSE res)]
    /\ last' = NoCall
    /\ UNCHANGED <<cb, now, streak, tally, notOcVars>>

\* the except clause records the failure itself and returns None / {} (the
\* clause of get_policy_tags_with_cb gets here only with account_id
\* assigned)
OCInnerRecordFailure(t) ==
    /\ oc[t].pc = "caught"
    /\ ~except_clause_raises(oc[t].name)
    /\ record_failure(cb, oc[t].caught, now).cb.failure_count <= MaxCount
    /\ Apply("record_failure", record_failure(cb, oc[t].caught, now),
             oc[t].caught)
    /\ gc' = [gc EXCEPT ![t] = wrapper_invoked(gc[t], NoError)]
    /\ oc' = [oc EXCEPT ![t].pc = "returned", ![t].failures = @ + 1]
    /\ UNCHANGED notOcVars

\* the caller's own record_success after the decorated function returned
\* (its result or the fallback's)
OCSiteRecordSuccess(t) ==
    /\ gc[t].pc = "done" /\ oc[t].pc \in {"called", "returned"}
    /\ gc[t].outcome \in {"result", "fallback"}
    /\ site_records_success(oc[t].name, oc[t].remote)
    /\ Apply("record_success", record_success(cb, now), NoError)
    /\ oc' = [oc EXCEPT ![t].pc = "recorded", ![t].successes = @ + 1]
    /\ UNCHANGED <<gc, notOcVars>>

\* the call site is done with this call
OCReturn(t) ==
    /\ gc[t].pc = "done" /\ oc[t].pc # "idle"
    /\ (/\ oc[t].name \in {"list_policies", "policy_tags"}
        /\ gc[t].outcome \in {"result", "fallback"}) => oc[t].pc = "recorded"
    /\ gc' = [gc EXCEPT ![t] = IdleCall]
    /\ oc' = [oc EXCEPT ![t] = NoSite]
    /\ last' = NoCall
    /\ UNCHANGED <<cb, now, streak, tally, notOcVars>>

SiteNext ==
    \/ Tick
    \/ AllowRequest
    \/ RecordSuccess
    \/ \E error \in Errors : RecordFailure(error)
    \/ OCCollected
    \/ \E t \in Threads, name \in Sites : OCCall(t, name)
    \/ \E t \in Threads : OCDenied(t)
    \/ \E t \in Threads, res \in RemoteResults("assume_role") :
           OCRemote(t, res)
    \/ \E t \in Threads : OCInnerRecordFailure(t)
    \/ \E t \in Threads : GCRecordSuccess(t)
    \/ \E t \in Threads : GCRecordFailure(t)
    \/ \E t \in Threads : OCSiteRecordSuccess(t)
    \/ \E t \in Threads : OCReturn(t)

\* the breaker of a site as list_policy_properties_multi_account creates it:
\* fixed parameters (thresholds 3, 3, 5 in the code, scaled here)
SiteInit ==
    /\ Init
    /\ cb = NewBreaker(OrchThreshold, OrchRecovery, MaxReset, Epoch)

\* the breaker under the orchestrator's call sites: one worker thread
\* followed through its call, the other workers seen through their calls on
\* the shared breaker
SiteSpec == SiteInit /\ [][SiteNext]_vars

(* ------------------- record_failure, access by access ------------------ *)
\* a lock that excludes nobody
lock_available_to_all(t) == TRUE

\* threading.RLock: a thread enters `with self._lock` when the lock is free
\* or already its own
lock_available(t) == rlock = "" \/ rlock = t

\* with self._lock:
RFAcquire(t) ==
    /\ rf[t].pc = "idle"
    /\ lock_available(t)
    /\ rlock' = t
    /\ rf' = [rf EXCEPT ![t].pc = "locked"]
    /\ UNCHANGED <<cb, now, gc, last, streak, tally, oc, lockVars, orchVars>>

\* self.last_failure_time = time.time(), then the load of
\* self.failure_count for `+= 1` (the error is Transient: should_trigger)
RFLoad(t) ==
    /\ rf[t].pc = "locked"
    /\ cb.failure_count < MaxCount
    /\ cb' = [cb EXCEPT !.last_failure_time = now]
    /\ rf' = [rf EXCEPT ![t].pc = "loaded", ![t].loaded = cb.failure_count]
    /\ UNCHANGED <<now, gc, last, streak, tally, oc, rlock, lockVars, orchVars>>

\* the store of failure_count and the threshold / HALF-OPEN test
RFStore(t) ==
    /\ rf[t].pc = "loaded"
    /\ cb' = count_failure([cb EXCEPT !.failure_count = rf[t].loaded])
    /\ rf' = [rf EXCEPT ![t].pc = "stored"]
    /\ UNCHANGED <<now, gc, last, streak, tally, oc, rlock, lockVars, orchVars>>

\* leaving the with block; return self.state
RFRelease(t) ==
    /\ rf[t].pc = "stored"
    /\ rlock' = IF rlock = t THEN "" ELSE rlock
    /\ rf' = [rf EXCEPT ![t].pc = "done"]
    /\ UNCHANGED <<cb, now, gc, last, streak, tally, oc, lockVars, orchVars>>

RaceNext ==
    \/ Tick
    \/ \E t \in RaceThreads : RFAcquire(t)
    \/ \E t \in RaceThreads : RFLoad(t)
    \/ \E t \in RaceThreads : RFStore(t)
    \/ \E t \in RaceThreads : RFRelease(t)

\* threads calling record_failure(Transient error) concurrently, once each
RaceSpec == Init /\ [][RaceNext]_vars

(* ------------------------------- S3 lock ------------------------------- *)
\* cidb-2.0-pre-multiaccount/src/cidb2_reporter/s3_locking.py.  Every S3
\* request (put_object, get_object, delete_object) is one atomic step and
\* either answers or raises; a read of the clock (datetime.utcnow()) is a
\* step of its own, apart from the request made before or after it.  The
\* steps of different processes, and the clock, interleave.

\* an id generator that hands out the same id again
uuid4_repeats(n) == 1

\* str(uuid.uuid4()): an id that was never generated before, the n+1st
uuid4(n) == n + 1

\* the lock record acquire_lock writes at time t
lock_content(id, t) == [lock_id |-> id, expires |-> t + LockTimeout]

\* acquire_lock: an unconditional put_object of the record it built before
\* the request, with the id and the expiry fixed then
acquire_lock(store, content, putOk) ==
    IF putOk
    THEN [store |-> content, success |-> TRUE, lock_id |-> content.lock_id]
    ELSE [store |-> store, success |-> FALSE, lock_id |-> 0]

\* check_stale_lock with >= in place of >
is_expired_at_expiry(rec, t) == t >= rec.expires

\* current_time > expiration_time
is_expired(rec, t) == t > rec.expires

\* check_stale_lock up to its clock read: get_object answered with a record
get_object_found(store, getOk) == getOk /\ store # NoLock

\* check_stale_lock: store is what get_object answered with, t the clock as
\* read after the answer; NoSuchKey and every other error give (False, None)
check_stale_lock(store, t, getOk) ==
    IF ~getOk \/ store = NoLock
    THEN [is_stale |-> FALSE, rec |-> NoLock]
    ELSE [is_stale |-> is_expired(store, t), rec |-> store]

\* a release that deletes whatever record it finds
owns_lock_always(rec, id) == TRUE

\* lock_content.get('lock_id') == lock_id
owns_lock(rec, id) == rec.lock_id = id

\* release_lock up to its delete: get_object answered with a record that
\* carries the caller's lock_id
release_lock_owner(store, id, getOk) ==
    getOk /\ store # NoLock /\ owns_lock(store, id)

\* a delete_object that leaves the object in place
delete_object_keeps(store, delOk) == store

\* delete_object: removes the object whatever it holds by now
delete_object(store, delOk) == IF delOk THEN NoLock ELSE store

\* the record of a completed lock function call of process p
LockCall(p, op, ret, ok, before) ==
    [NoLockCall EXCEPT !.op = op, !.p = p, !.ret = ret, !.ok = ok,
                       !.at = now, !.before = before,
                       !.id = lp[p].lock_id, !.again = lp[p].released,
                       !.prev = lp[p].prev, !.issued = issued]

\* everything but the lock, its object and the clock
notLockVars == <<cb, gc, last, streak, tally, oc, raceVars, orchVars>>

\* process p calls acquire_lock: the id is generated and the clock is read
\* for the expiry while the record is built, before the request
ApiAcquireContent(p) ==
    /\ lp[p].pc = "idle"
    /\ issued < MaxLockIds
    /\ issued' = issued + 1
    /\ lp' = [lp EXCEPT ![p].pc = "acquire_put",
                        ![p].content = lock_content(uuid4(issued), now),
                        ![p].gen = issued]
    /\ lastLock' = NoLockCall
    /\ UNCHANGED <<now, lockObj, dataObj, notLockVars>>

\* acquire_lock, its put_object of the record built earlier
ApiAcquire(p, putOk) ==
    /\ lp[p].pc = "acquire_put"
    /\ LET r == acquire_lock(lockObj, lp[p].content, putOk)
       IN  /\ lockObj' = r.store
           /\ lp' = [lp EXCEPT ![p].pc = "idle",
                               ![p].lock_id = IF r.success THEN r.lock_id ELSE @,
                               ![p].released = IF r.success THEN FALSE ELSE @,
                               ![p].prev = "",
                               ![p].content = NoLock, ![p].gen = 0]
           /\ lastLock' = [LockCall(p, "acquire", r.success, putOk, lockObj)
                              EXCEPT !.id = r.lock_id, !.issued = lp[p].gen]
    /\ UNCHANGED <<now, dataObj, issued, notLockVars>>

\* process p calls check_stale_lock: its get_object; NoSuchKey and an error
\* return (False, None) at once, a record goes on to the clock read
ApiCheckStaleGet(p, getOk) ==
    /\ lp[p].pc = "idle"
    /\ IF get_object_found(lockObj, getOk)
       THEN /\ lp' = [lp EXCEPT ![p].pc = "check_clock", ![p].prev = "",
                                ![p].seen = lockObj]
            /\ lastLock' = NoLockCall
       ELSE /\ lp' = [lp EXCEPT ![p].prev = ""]
            /\ LET r == check_stale_lock(lockObj, now, getOk)
               IN  lastLock' = [LockCall(p, "check_stale", r.is_stale, getOk,
                                         lockObj)
                                   EXCEPT !.rec = r.rec, !.got = lockObj]
    /\ UNCHANGED <<now, lockObj, dataObj, issued, notLockVars>>

\* check_stale_lock, its clock read: the record read earlier is compared
\* with the clock as it reads now
ApiCheckStale(p) ==
    /\ lp[p].pc = "check_clock"
    /\ LET r == check_stale_lock(lp[p].seen, now, TRUE)
       IN  lastLock' = [LockCall(p, "check_stale", r.is_stale, TRUE, lockObj)
                           EXCEPT !.rec = r.rec, !.got = lp[p].seen]
    /\ lp' = [lp EXCEPT ![p].pc = "idle", ![p].seen = NoLock]
    /\ UNCHANGED <<now, lockObj, dataObj, issued, notLockVars>>

\* break_stale_lock, first request: the get_object of its check_stale_lock;
\* NoSuchKey and an error make break_stale_lock return False
ApiBreakGet(p, getOk) ==
    /\ lp[p].pc = "idle"
    /\ IF get_object_found(lockObj, getOk)
       THEN /\ lp' = [lp EXCEPT ![p].pc = "break_clock", ![p].prev = "",
                                ![p].seen = lockObj]
            /\ lastLock' = NoLockCall
       ELSE /\ lp' = [lp EXCEPT ![p].prev = ""]
            /\ LET r == check_stale_lock(lockObj, now, getOk)
               IN  lastLock' = [LockCall(p, "break_stale", FALSE, getOk,
                                         lockObj)
                                   EXCEPT !.rec = r.rec, !.got = lockObj]
    /\ UNCHANGED <<now, lockObj, dataObj, issued, notLockVars>>

\* break_stale_lock, the clock read of its check_stale_lock: not stale
\* returns False, stale goes on to the delete
ApiBreakCheck(p) ==
    /\ lp[p].pc = "break_clock"
    /\ LET r == check_stale_lock(lp[p].seen, now, TRUE)
       IN  IF r.is_stale
           THEN /\ lp' = [lp EXCEPT ![p].pc = "break_delete"]
                /\ lastLock' = NoLockCall
           ELSE /\ lp' = [lp EXCEPT ![p].pc = "idle", ![p].seen = NoLock]
                /\ lastLock' = [LockCall(p, "break_stale", FALSE, TRUE, lockObj)
                                   EXCEPT !.rec = r.rec, !.got = lp[p].seen]
    /\ UNCHANGED <<now, lockObj, dataObj, issued, notLockVars>>

\* break_stale_lock, second request: delete_object
ApiBreakDelete(p, delOk) ==
    /\ lp[p].pc = "break_delete"
    /\ lockObj' = delete_object(lockObj, delOk)
    /\ lp' = [lp EXCEPT ![p].pc = "idle", ![p].seen = NoLock,
                        ![p].prev = IF delOk THEN "break_stale" ELSE ""]
    /\ lastLock' = [LockCall(p, "break_stale", delOk, delOk, lockObj)
                       EXCEPT !.deleted = IF delOk THEN lockObj ELSE NoLock,
                              !.rec = lp[p].seen, !.got = lp[p].seen]
    /\ UNCHANGED <<now, dataObj, issued, notLockVars>>

\* release_lock(lock_id), first request: get_object and the owner test;
\* a missing object, another owner's record and an error return False
ApiReleaseGet(p, getOk) ==
    /\ lp[p].pc = "idle"
    /\ lp[p].lock_id # 0
    /\ IF release_lock_owner(lockObj, lp[p].lock_id, getOk)
       THEN /\ lp' = [lp EXCEPT ![p].pc = "release_delete", ![p].prev = ""]
            /\ lastLock' = NoLockCall
       ELSE /\ lp' = [lp EXCEPT ![p].prev = ""]
            /\ lastLock' = LockCall(p, "release", FALSE, getOk, lockObj)
    /\ UNCHANGED <<now, lockObj, dataObj, issued, notLockVars>>

\* release_lock, second request: delete_object
ApiReleaseDelete(p, delOk) ==
    /\ lp[p].pc = "release_delete"
    /\ lockObj' = delete_object(lockObj, delOk)
    /\ lp' = [lp EXCEPT ![p].pc = "idle",
                        ![p].released = IF delOk THEN TRUE ELSE @]
    /\ lastLock' = [LockCall(p, "release", delOk, delOk, lockObj)
                       EXCEPT !.deleted = IF delOk THEN lockObj ELSE NoLock]
    /\ UNCHANGED <<now, dataObj, issued, notLockVars>>

\* the clock of the lock functions (datetime.utcnow())
LockTick ==
    /\ now < Epoch + LockMaxTime
    /\ now' = now + 1
    /\ UNCHANGED <<cb, gc, last, streak, tally, nonBreakerVars>>

LockNext ==
    \/ LockTick
    \/ \E p \in Procs : ApiAcquireContent(p)
    \/ \E p \in Procs, putOk \in BOOLEAN : ApiAcquire(p, putOk)
    \/ \E p \in Procs, getOk \in BOOLEAN : ApiCheckStaleGet(p, getOk)
    \/ \E p \in Procs : ApiCheckStale(p)
    \/ \E p \in Procs, getOk \in BOOLEAN : ApiBreakGet(p, getOk)
    \/ \E p \in Procs : ApiBreakCheck(p)
    \/ \E p \in Procs, delOk \in BOOLEAN : ApiBreakDelete(p, delOk)
    \/ \E p \in Procs, getOk \in BOOLEAN : ApiReleaseGet(p, getOk)
    \/ \E p \in Procs, delOk \in BOOLEAN : ApiReleaseDelete(p, delOk)

\* the reporter has no breaker: the breaker stays as constructed
LockInit ==
    /\ Init
    /\ cb = NewBreaker(MaxThreshold, MaxRecovery, MaxReset, Epoch)

\* processes calling the lock functions on one key, in any order
LockSpec == LockInit /\ [][LockNext]_vars

(* ---------------------------- write_with_lock -------------------------- *)
\* s3_locking.write_with_lock around a writer function, as
\* write_csv_to_s3_with_lock of cidb2_reporter/main.py calls it around
\* write_csv_to_s3.  The rows a process writes are named after the process.

\* a retry loop that goes straight to the next acquire_lock
after_failed_acquire_no_break(a) ==
    IF a + 1 < MaxAttempts THEN "acquire" ELSE "done"

\* write_with_lock after a failed acquire_lock in attempt number a: the next
\* attempt (break_stale_lock first), or the error result after the loop
after_failed_acquire(a) ==
    IF a + 1 < MaxAttempts THEN "break_check" ELSE "done"

\* write_with_lock: acquire_lock of the current attempt, up to its request:
\* the id is generated and the clock is read for the expiry
WAcquireContent(p) ==
    /\ lp[p].pc = "acquire"
    /\ issued < MaxLockIds
    /\ issued' = issued + 1
    /\ lp' = [lp EXCEPT ![p].pc = "acquire_put",
                        ![p].content = lock_content(uuid4(issued), now)]
    /\ UNCHANGED <<now, lockObj, dataObj, lastLock, notLockVars>>

\* acquire_lock of the current attempt, its put_object
WAcquire(p, putOk) ==
    /\ lp[p].pc = "acquire_put"
    /\ LET r == acquire_lock(lockObj, lp[p].content, putOk)
       IN  /\ lockObj' = r.store
           /\ lp' = IF r.success
                    THEN [lp EXCEPT ![p].pc = "writer", ![p].lock_id = r.lock_id,
                                    ![p].calls.acquire = @ + 1,
                                    ![p].content = NoLock]
                    ELSE [lp EXCEPT ![p].pc = after_failed_acquire(lp[p].attempt),
                                    ![p].calls.acquire = @ + 1,
                                    ![p].attempt = @ + 1,
                                    ![p].content = NoLock,
                                    ![p].status =
                                        IF after_failed_acquire(lp[p].attempt) = "done"
                                        THEN "error" ELSE @]
    /\ UNCHANGED <<now, dataObj, issued, lastLock, notLockVars>>

\* write_with_lock, attempt > 0: break_stale_lock, the get_object of its
\* check_stale_lock; NoSuchKey and an error end break_stale_lock
WBreakGet(p, getOk) ==
    /\ lp[p].pc = "break_check"
    /\ lp' = IF get_object_found(lockObj, getOk)
             THEN [lp EXCEPT ![p].pc = "break_clock", ![p].seen = lockObj]
             ELSE [lp EXCEPT ![p].pc = "acquire",
                             ![p].calls.break_stale = @ + 1]
    /\ UNCHANGED <<now, lockObj, dataObj, issued, lastLock, notLockVars>>

\* break_stale_lock, the clock read of its check_stale_lock on the record
\* read earlier
WBreakCheck(p) ==
    /\ lp[p].pc = "break_clock"
    /\ lp' = [lp EXCEPT ![p].pc =
                 IF check_stale_lock(lp[p].seen, now, TRUE).is_stale
                 THEN "break_delete" ELSE "acquire",
                        ![p].seen = NoLock,
                        ![p].calls.break_stale = @ + 1]
    /\ UNCHANGED <<now, lockObj, dataObj, issued, lastLock, notLockVars>>

\* break_stale_lock, its delete_object; then the sleep and the next acquire
WBreakDelete(p, delOk) ==
    /\ lp[p].pc = "break_delete"
    /\ lockObj' = delete_object(lockObj, delOk)
    /\ lp' = [lp EXCEPT ![p].pc = "acquire"]
    /\ UNCHANGED <<now, dataObj, issued, lastLock, notLockVars>>

\* a try without the finally: a raising writer skips the release
after_writer_no_finally(outcome) ==
    IF outcome = "raised" THEN "done" ELSE "release_get"

\* try: return writer_func(lock_id) finally: release_lock(...): whatever the
\* writer did, release_lock runs next
after_writer(outcome) == "release_get"

\* writer_func(lock_id) = write_csv_to_s3: put_object of the rows; every
\* exception is caught and becomes status "error"
WWriter(p, putOk) ==
    /\ lp[p].pc = "writer"
    /\ dataObj' = IF putOk THEN lp[p].rows ELSE dataObj
    /\ LET result == IF putOk THEN "success" ELSE "error"
       IN  lp' = [lp EXCEPT ![p].pc = after_writer(result),
                            ![p].status = result, ![p].wret = result,
                            ![p].calls.writer = @ + 1]
    /\ UNCHANGED <<now, lockObj, issued, lastLock, notLockVars>>

\* write_with_lock with a writer_func that raises: the exception leaves
\* write_with_lock once the finally block has run
WWriterRaises(p) ==
    /\ lp[p].pc = "writer"
    /\ lp' = [lp EXCEPT ![p].pc = after_writer("raised"),
                        ![p].status = "raised", ![p].wret = "raised",
                        ![p].calls.writer = @ + 1]
    /\ UNCHANGED <<now, lockObj, dataObj, issued, lastLock, notLockVars>>

\* the finally block: release_lock, its get_object and owner test
WReleaseGet(p, getOk) ==
    /\ lp[p].pc = "release_get"
    /\ lp' = [lp EXCEPT ![p].pc =
                 IF release_lock_owner(lockObj, lp[p].lock_id, getOk)
                 THEN "release_delete" ELSE "done",
                        ![p].calls.release = @ + 1,
                        ![p].rel_id = lp[p].lock_id]
    /\ UNCHANGED <<now, lockObj, dataObj, issued, lastLock, notLockVars>>

\* release_lock, its delete_object; write_with_lock returns the writer's result
WReleaseDelete(p, delOk) ==
    /\ lp[p].pc = "release_delete"
    /\ lockObj' = delete_object(lockObj, delOk)
    /\ lp' = [lp EXCEPT ![p].pc = "done"]
    /\ UNCHANGED <<now, dataObj, issued, lastLock, notLockVars>>

\* write_with_lock(s3, bucket, key, writer_func) called with any writer
WStart(p) ==
    /\ lp[p].pc = "idle"
    /\ lp' = [lp EXCEPT ![p].pc = "acquire", ![p].attempt = 0,
                        ![p].rows = {p}]
    /\ UNCHANGED <<now, lockObj, dataObj, issued, lastLock, notLockVars>>

WriteNext ==
    \/ LockTick
    \/ \E p \in Procs : WStart(p)
    \/ \E p \in Procs : WAcquireContent(p)
    \/ \E p \in Procs, putOk \in BOOLEAN : WAcquire(p, putOk)
    \/ \E p \in Procs, getOk \in BOOLEAN : WBreakGet(p, getOk)
    \/ \E p \in Procs : WBreakCheck(p)
    \/ \E p \in Procs, delOk \in BOOLEAN : WBreakDelete(p, delOk)
    \/ \E p \in Procs, putOk \in BOOLEAN : WWriter(p, putOk)
    \/ \E p \in Procs : WWriterRaises(p)
    \/ \E p \in Procs, getOk \in BOOLEAN : WReleaseGet(p, getOk)
    \/ \E p \in Procs, delOk \in BOOLEAN : WReleaseDelete(p, delOk)

\* processes calling write_with_lock on one key, once each
WriteSpec == LockInit /\ [][WriteNext]_vars

(* ----------------------------- orchestrator ---------------------------- *)
\* cidb2_producer.py, IAMClient.list_policy_properties_multi_account: the
\* calling thread submits one process_account task per entry of account_list
\* to a pool of max_accounts_concurrency workers and collects the results as
\* they complete; process_account runs the policies of its account through
\* a pool of max_workers workers (process_policy).  The three breakers are
\* shared by all tasks of the call.  A step of a task is one call on a
\* breaker or one access to a variable other threads use, together with the
\* remote call and the local code that lead to it.

\* last_success_time is written by __init__, record_success and reset and
\* read by no method: the breakers of the call are kept without it
Slots(b) == [b EXCEPT !.last_success_time = 0]

\* the outer `except Exception` of list_policy_properties_multi_account
\* builds the error result with len(account_list): for an account_list that
\* has a length the call returns the error result, for one that has none
\* (None) the handler raises TypeError itself and the exception leaves the
\* call
outer_except(sized) == IF sized THEN "returned" ELSE "escaped"

\* a pool that starts a thread for every task, whatever max_workers says
pool_threads_unbounded(submitted, max_workers) == submitted

\* ThreadPoolExecutor(max_workers): every submit that returns has started a
\* worker thread unless max_workers threads exist already (or an idle
\* thread was there to take the task); a submit that raises has started
\* none.  The threads the pool has after `submitted` submits that returned
pool_threads(submitted, max_workers) ==
    IF submitted < max_workers THEN submitted ELSE max_workers

\* a pool whose workers never pick up a task
pool_has_free_worker_never(busy, threads) == FALSE

\* a queued task is picked up when one of the pool's threads is not busy
\* with a running task or with a task queued before it
pool_has_free_worker(busy, threads) == busy < threads

\* the account tasks whose executor.submit returned a future
SubmittedAccounts ==
    {a \in Accounts : acct[a].pc # "unsubmitted" /\ a # main.rejected}

\* the policy tasks of account a whose executor.submit returned a future
SubmittedPolicies(a) ==
    {i \in Items : /\ pol[a][i].pc \notin {"none", "unsubmitted"}
                   /\ i # acct[a].rejected}

\* the worker threads of the account pool, and of the pool of account a
AccountThreads ==
    pool_threads(Cardinality(SubmittedAccounts), pool.max_accounts)

PolicyThreads(a) ==
    pool_threads(Cardinality(SubmittedPolicies(a)), pool.max_workers)

\* the account tasks a worker of the account pool is running
RunningAccounts ==
    {a \in Accounts :
        acct[a].pc \notin {"unsubmitted", "queued", "finished", "collected"}}

\* the policy tasks of account a a worker of its pool is running
RunningPolicies(a) ==
    {i \in Items : pol[a][i].pc \notin {"none", "unsubmitted", "queued", "done"}}

\* the position of x in the sequence seq
Position(seq, x) == CHOOSE k \in 1..Len(seq) : seq[k] = x

\* the pools hand out their tasks in submission order: the tasks submitted
\* before a (before policy i of account a) that no worker has picked up
QueuedAccountsBefore(a) ==
    {b \in Accounts : /\ acct[b].pc = "queued"
                      /\ Position(AccountOrder, b) < Position(AccountOrder, a)}

QueuedPoliciesBefore(a, i) ==
    {j \in Items : /\ pol[a][j].pc = "queued"
                   /\ Position(ItemOrder, j) < Position(ItemOrder, i)}

\* the exit of `with ThreadPoolExecutor(...)` (shutdown(wait=True)) returns
\* when the pool's threads have run every work item of the queue: no task of
\* the account pool (of the pool of account a) is running, and a work item is
\* left in the queue only in a pool that has no thread
AccountPoolIdle ==
    \A a \in Accounts :
        \/ acct[a].pc \in {"unsubmitted", "finished", "collected"}
        \/ acct[a].pc = "queued" /\ AccountThreads = 0

PolicyPoolIdle(a) ==
    \A i \in Items :
        \/ pol[a][i].pc \in {"none", "unsubmitted", "done"}
        \/ pol[a][i].pc = "queued" /\ PolicyThreads(a) = 0

\* process_account returns: its result dictionary
Finish(a, status, rec) ==
    [rec EXCEPT !.pc = "finished", !.status = status,
                !.policies = IF status = "success" THEN @ ELSE {}]

\* process_account going on to the role assumption whatever the breaker said
after_allow_ignores_denial(allowed) == "assume_allow"

\* process_account after its explicit assume_role_cb.allow_request(): `if
\* not ...` returns the circuit_open result, otherwise the role assumption
\* follows
after_allow(allowed) == IF allowed THEN "assume_allow" ELSE "circuit_open"

\* process_account going on to the listing whatever assume_role_with_cb
\* returned
after_assume_ignores_session(session) == "list_allow"

\* process_account after assume_role_with_cb returned: `if not assumed_role`
\* returns the failed result, otherwise the listing follows
after_assume(session) == IF session THEN "list_allow" ELSE "failed"

\* the record of task a after assume_role_with_cb returned
AfterAssume(a, rec, session) ==
    IF after_assume(session) = "list_allow"
    THEN [rec EXCEPT !.pc = "list_allow"]
    ELSE Finish(a, "failed", rec)

\* an except clause reporting the account as a success
status_on_exception_success == "success"

\* the status in the result of process_account's `except Exception`
status_on_exception == "failed"

\* everything but the orchestrator
notOrchVars == <<cb, now, gc, last, streak, tally, oc, raceVars, lockVars>>

\* the arguments of list_policy_properties_multi_account(client_base,
\* account_list, scope, max_workers, max_accounts_concurrency): the
\* account_id values of the entries of account_list and the two pool sizes
\* (the module has no breaker of its own: cb stays as constructed)
OrchInit ==
    /\ InitExceptArguments
    /\ cb = NewBreaker(MaxThreshold, MaxRecovery, MaxReset, Epoch)
    /\ \E ids \in IdAssignments, ma \in PoolSizes, mw \in PoolSizes :
          /\ tasks = [a \in Accounts |-> [id |-> ids[a]]]
          /\ pool = [max_accounts |-> ma, max_workers |-> mw]

\* the same with an account_list that names every account once
OrchLiveInit ==
    /\ OrchInit
    /\ \A a, b \in Accounts : a # b => tasks[a].id # tasks[b].id

\* the call is made with the list of account entries: the three breakers
\* are created and the submit loop starts
MCall ==
    /\ main.pc = "idle"
    /\ cbs' = [s \in Sites |->
                 Slots(NewBreaker(OrchThreshold, OrchRecovery, MaxReset, now))]
    /\ main' = [main EXCEPT !.pc = "submit"]
    /\ UNCHANGED <<pool, tasks, acct, pol, notOrchVars>>

\* the call is made with account_list = None instead: after the breakers
\* are created the log line's len(account_list) raises TypeError inside the
\* try; the outer except clause evaluates len(account_list) again for the
\* error result
MCallNoList ==
    /\ main.pc = "idle"
    /\ cbs' = [s \in Sites |->
                 Slots(NewBreaker(OrchThreshold, OrchRecovery, MaxReset, now))]
    /\ main' = [main EXCEPT !.pc = outer_except(FALSE), !.error = TRUE]
    /\ UNCHANGED <<pool, tasks, acct, pol, notOrchVars>>

\* the entries of account_list before a in the order of submission that
\* are not submitted yet
UnsubmittedBefore(a) ==
    {b \in Accounts : /\ acct[b].pc = "unsubmitted"
                      /\ Position(AccountOrder, b) < Position(AccountOrder, a)}

\* executor.submit(process_account, account_info) for the next entry of
\* account_list: the task is in the pool's queue and a worker may start it
\* while the calling thread submits the next one; after the last submit the
\* calling thread waits in as_completed
MSubmit(a) ==
    /\ main.pc = "submit"
    /\ acct[a].pc = "unsubmitted" /\ UnsubmittedBefore(a) = {}
    /\ acct' = [acct EXCEPT ![a].pc = "queued"]
    /\ main' = [main EXCEPT !.pc =
                  IF \A b \in Accounts \ {a} : acct[b].pc # "unsubmitted"
                  THEN "collect" ELSE "submit"]
    /\ UNCHANGED <<cbs, pool, tasks, pol, notOrchVars>>

\* executor.submit raises for the next entry (RuntimeError: can't start new
\* thread): submit has put the work item in the queue before it tries to
\* start a thread, so a thread of the pool, if there is one, runs the task;
\* the exception leaves the `with` block, whose exit waits for the pool
MSubmitRaises(a) ==
    /\ main.pc = "submit"
    /\ acct[a].pc = "unsubmitted" /\ UnsubmittedBefore(a) = {}
    /\ acct' = [acct EXCEPT ![a].pc = "queued"]
    /\ main' = [main EXCEPT !.pc = "shutdown", !.rejected = a]
    /\ UNCHANGED <<cbs, pool, tasks, pol, notOrchVars>>

\* the pool is idle: the outer except returns the error result, with an
\* empty 'accounts' map; the results of the tasks are dropped
MErrorReturn ==
    /\ main.pc = "shutdown"
    /\ AccountPoolIdle
    /\ main' = [main EXCEPT
                  !.pc = outer_except(TRUE),
                  !.error = TRUE,
                  !.summary = [ total_accounts |-> Cardinality(Accounts),
                                successful_accounts |-> 0,
                                failed_accounts |-> Cardinality(Accounts),
                                circuit_open_accounts |-> 0,
                                total_policies |-> 0, tagged_policies |-> 0,
                                untagged_policies |-> 0 ]]
    /\ UNCHANGED <<cbs, pool, tasks, acct, pol, notOrchVars>>

\* a worker of the account pool starts process_account(a): the explicit
\* assume_role_cb.allow_request()
PAStart(a) ==
    /\ main.pc \in {"submit", "collect", "shutdown"}
    /\ acct[a].pc = "queued"
    /\ pool_has_free_worker(
           Cardinality(RunningAccounts) + Cardinality(QueuedAccountsBefore(a)),
           AccountThreads)
    /\ LET r == allow_request(cbs.assume_role, now)
           rec == IF r.ret THEN acct[a]
                  ELSE [acct[a] EXCEPT !.assume_out = "denied"]
       IN  /\ cbs' = [cbs EXCEPT !.assume_role = Slots(r.cb)]
           /\ acct' = [acct EXCEPT ![a] =
                         IF after_allow(r.ret) = "assume_allow"
                         THEN [rec EXCEPT !.pc = "assume_allow"]
                         ELSE Finish(a, "circuit_open", rec)]
    /\ UNCHANGED <<pool, tasks, pol, main, notOrchVars>>

\* assume_role_with_cb: the wrapper's allow_request; denied gives the
\* fallback's None and the account is failed
PAAssumeAllow(a) ==
    /\ acct[a].pc = "assume_allow"
    /\ LET r == allow_request(cbs.assume_role, now)
       IN  /\ cbs' = [cbs EXCEPT !.assume_role = Slots(r.cb)]
           /\ acct' = [acct EXCEPT ![a] =
                         IF r.ret THEN [@ EXCEPT !.pc = "assume_remote"]
                         ELSE AfterAssume(a, [@ EXCEPT !.assume_out = "fallback"],
                                          FALSE)]
    /\ UNCHANGED <<pool, tasks, pol, main, notOrchVars>>

\* client_base.assume_role answers (out), and after a session
\* assumed_session.client('sts').get_caller_identity() (identity): a session
\* whose identity call returns (wrapper records success), no session (return
\* None, wrapper records success, account failed), or an exception of
\* either call, which the except clause records as a failure
PAAssume(a, out, identity) ==
    /\ acct[a].pc = "assume_remote"
    /\ identity # NoError => out = NoError
    /\ LET rec == [acct[a] EXCEPT !.invoked = @ \cup {"assume_role"}]
       IN  IF out = NoError /\ identity = NoError
           THEN /\ cbs' = [cbs EXCEPT !.assume_role = Slots(record_success(@, now).cb)]
                /\ acct' = [acct EXCEPT ![a] =
                              AfterAssume(a, [rec EXCEPT !.assume_out = "ok"], TRUE)]
           ELSE IF out = NoSession
           THEN /\ cbs' = [cbs EXCEPT !.assume_role = Slots(record_success(@, now).cb)]
                /\ acct' = [acct EXCEPT ![a] =
                              AfterAssume(a, [rec EXCEPT !.assume_out = "none"], FALSE)]
           ELSE /\ cbs' = [cbs EXCEPT !.assume_role =
                             Slots(record_failure(@, IF out = NoError
                                                     THEN identity ELSE out,
                                                  now).cb)]
                /\ acct' = [acct EXCEPT ![a] =
                              [rec EXCEPT !.pc = "assume_caught",
                                          !.assume_out =
                                              IF out = NoError
                                              THEN "identity_raised"
                                              ELSE IF ErrorKind(out) = "Permanent"
                                              THEN "raised_permanent"
                                              ELSE "raised"]]
    /\ UNCHANGED <<pool, tasks, pol, main, notOrchVars>>

\* after the except clause returned None: the wrapper's record_success, and
\* process_account returns failed
PAAssumeCaught(a) ==
    /\ acct[a].pc = "assume_caught"
    /\ cbs' = [cbs EXCEPT !.assume_role = Slots(record_success(@, now).cb)]
    /\ acct' = [acct EXCEPT ![a] = AfterAssume(a, @, FALSE)]
    /\ UNCHANGED <<pool, tasks, pol, main, notOrchVars>>

\* assumed_session.client('iam') raises (no region, no endpoint data): no
\* breaker is called, the except clause of process_account returns failed
PAClientRaises(a) ==
    /\ acct[a].pc = "list_allow"
    /\ acct' = [acct EXCEPT ![a] =
                  Finish(a, status_on_exception,
                         [@ EXCEPT !.list_out = "client_error"])]
    /\ UNCHANGED <<cbs, pool, tasks, pol, main, notOrchVars>>

\* assumed_session.client('iam') returns; the explicit
\* list_cb.allow_request()
PAListAllow(a) ==
    /\ acct[a].pc = "list_allow"
    /\ LET r == allow_request(cbs.list_policies, now)
       IN  /\ cbs' = [cbs EXCEPT !.list_policies = Slots(r.cb)]
           /\ acct' = [acct EXCEPT ![a] =
                         IF r.ret THEN [@ EXCEPT !.pc = "list_wrapper_allow"]
                         ELSE Finish(a, "circuit_open",
                                     [@ EXCEPT !.list_out = "denied"])]
    /\ UNCHANGED <<pool, tasks, pol, main, notOrchVars>>

\* list_policies_with_cb: the wrapper's allow_request; denied, the wrapper
\* calls list_policies_fallback, whose TypeError reaches the except clause
\* of process_account: failed
PAListWrapperAllow(a) ==
    /\ acct[a].pc = "list_wrapper_allow"
    /\ LET r == allow_request(cbs.list_policies, now)
       IN  /\ cbs' = [cbs EXCEPT !.list_policies = Slots(r.cb)]
           /\ acct' = [acct EXCEPT ![a] =
                         IF r.ret THEN [@ EXCEPT !.pc = "list_remote"]
                         ELSE IF fallback_accepts("list_policies")
                         THEN [@ EXCEPT !.pc = "list_record",
                                        !.list_out = "fallback"]
                         ELSE Finish(a, status_on_exception,
                                     [@ EXCEPT !.list_out = "fallback_error"])]
    /\ UNCHANGED <<pool, tasks, pol, main, notOrchVars>>

\* iam_client.list_policies returns a listing (wrapper records success)
PAList(a, listing) ==
    /\ acct[a].pc = "list_remote"
    /\ cbs' = [cbs EXCEPT !.list_policies = Slots(record_success(@, now).cb)]
    /\ acct' = [acct EXCEPT ![a] =
                  [@ EXCEPT !.pc = "list_record", !.list_out = "ok",
                            !.listed = listing,
                            !.invoked = @ \cup {"list_policies"}]]
    /\ UNCHANGED <<pool, tasks, pol, main, notOrchVars>>

\* iam_client.list_policies raises: the wrapper records the failure and
\* re-raises, the except clause of process_account returns failed
PAListRaises(a, error) ==
    /\ acct[a].pc = "list_remote"
    /\ cbs' = [cbs EXCEPT !.list_policies =
                 Slots(record_failure(@, error, now).cb)]
    /\ acct' = [acct EXCEPT ![a] =
                  Finish(a, status_on_exception,
                         [@ EXCEPT !.list_out = "raised",
                                   !.invoked = @ \cup {"list_policies"}])]
    /\ UNCHANGED <<pool, tasks, pol, main, notOrchVars>>

\* the explicit list_cb.record_success(); the account's pool is created and
\* the listed policies wait to be submitted (with no policy the loop over
\* the futures is empty)
PAListRecord(a) ==
    /\ acct[a].pc = "list_record"
    /\ cbs' = [cbs EXCEPT !.list_policies = Slots(record_success(@, now).cb)]
    /\ acct' = [acct EXCEPT ![a].pc =
                  IF acct[a].listed = {} THEN "policies" ELSE "submit_policies"]
    /\ pol' = [pol EXCEPT ![a] =
                 [i \in Items |-> IF i \in acct[a].listed
                                  THEN [NoPolicy EXCEPT !.pc = "unsubmitted"]
                                  ELSE NoPolicy]]
    /\ UNCHANGED <<pool, tasks, main, notOrchVars>>

\* the policies of a's listing before i that are not submitted yet
UnsubmittedPoliciesBefore(a, i) ==
    {j \in Items : /\ pol[a][j].pc = "unsubmitted"
                   /\ Position(ItemOrder, j) < Position(ItemOrder, i)}

\* executor.submit(process_policy, policy) for the next policy of the
\* listing; after the last one process_account waits in as_completed
PSubmit(a, i) ==
    /\ acct[a].pc = "submit_policies"
    /\ pol[a][i].pc = "unsubmitted" /\ UnsubmittedPoliciesBefore(a, i) = {}
    /\ pol' = [pol EXCEPT ![a][i].pc = "queued"]
    /\ acct' = [acct EXCEPT ![a].pc =
                  IF \A j \in Items \ {i} : pol[a][j].pc # "unsubmitted"
                  THEN "policies" ELSE "submit_policies"]
    /\ UNCHANGED <<cbs, pool, tasks, main, notOrchVars>>

\* executor.submit raises for the next policy: its work item is in the
\* queue, the policies after it are not submitted, and the exception leaves
\* the `with` block of the account's pool, whose exit waits for the pool
PSubmitRaises(a, i) ==
    /\ acct[a].pc = "submit_policies"
    /\ pol[a][i].pc = "unsubmitted" /\ UnsubmittedPoliciesBefore(a, i) = {}
    /\ pol' = [pol EXCEPT ![a][i].pc = "queued"]
    /\ acct' = [acct EXCEPT ![a].pc = "pool_exit", ![a].rejected = i]
    /\ UNCHANGED <<cbs, pool, tasks, main, notOrchVars>>

\* the account's pool is idle after a failed submit: the except clause of
\* process_account returns failed, without the policies already fetched
PAPoolExit(a) ==
    /\ acct[a].pc = "pool_exit"
    /\ PolicyPoolIdle(a)
    /\ acct' = [acct EXCEPT ![a] = Finish(a, status_on_exception, @)]
    /\ UNCHANGED <<cbs, pool, tasks, pol, main, notOrchVars>>

\* a worker of the account's pool starts process_policy: the wrapper's
\* allow_request of get_policy_tags_with_cb; denied, the wrapper calls
\* tag_fallback, whose TypeError makes process_policy raise: the policy is
\* dropped by process_account
PolStart(a, i) ==
    /\ pol[a][i].pc = "queued"
    /\ pool_has_free_worker(
           Cardinality(RunningPolicies(a)) + Cardinality(QueuedPoliciesBefore(a, i)),
           PolicyThreads(a))
    /\ LET r == allow_request(cbs.policy_tags, now)
       IN  /\ cbs' = [cbs EXCEPT !.policy_tags = Slots(r.cb)]
           /\ pol' = [pol EXCEPT ![a][i] =
                        IF r.ret THEN [@ EXCEPT !.pc = "remote"]
                        ELSE IF fallback_accepts("policy_tags")
                        THEN [@ EXCEPT !.pc = "record", !.out = "fallback",
                                       !.tags = "empty"]
                        ELSE [@ EXCEPT !.pc = "done",
                                       !.out = "fallback_error"]]
    /\ UNCHANGED <<pool, tasks, acct, main, notOrchVars>>

\* iam_client.list_policy_tags answers.  Tags, or an empty Tags list, which
\* gives {}: the wrapper records success.  A ClientError is caught by the
\* function, whose log line reads account_id, a variable of the enclosing
\* call: assigned, the except clause goes on to its record_failure;
\* unassigned, the log line raises NameError, which goes to the wrapper.
\* Any other exception is recorded by the wrapper and re-raised, and the
\* raising process_policy is dropped by process_account.
PolRemote(a, i, out) ==
    /\ pol[a][i].pc = "remote"
    /\ acct' = [acct EXCEPT ![a].invoked = @ \cup {"policy_tags"}]
    /\ IF out \in {NoError, NoTags}
       THEN /\ cbs' = [cbs EXCEPT !.policy_tags = Slots(record_success(@, now).cb)]
            /\ pol' = [pol EXCEPT ![a][i] =
                         [@ EXCEPT !.pc = "record", !.out = "ok",
                                   !.tags = IF out = NoError THEN "tagged"
                                            ELSE "empty"]]
       ELSE IF out.kind = "ClientError"
       THEN /\ cbs' = cbs
            /\ pol' = [pol EXCEPT ![a][i] =
                         IF except_clause_raises("policy_tags")
                         THEN [@ EXCEPT !.pc = "wrapper_failure",
                                        !.out = "raised", !.err = NameError]
                         ELSE [@ EXCEPT !.pc = "inner_failure",
                                        !.out = "raised", !.err = out]]
       ELSE /\ cbs' = [cbs EXCEPT !.policy_tags =
                             Slots(record_failure(@, out, now).cb)]
            /\ pol' = [pol EXCEPT ![a][i] =
                         [@ EXCEPT !.pc = "done", !.out = "raised"]]
    /\ UNCHANGED <<pool, tasks, main, notOrchVars>>

\* the except clause of get_policy_tags_with_cb after its log line:
\* tag_cb.record_failure(err), return {}
PolInnerFailure(a, i) ==
    /\ pol[a][i].pc = "inner_failure"
    /\ cbs' = [cbs EXCEPT !.policy_tags =
                 Slots(record_failure(@, pol[a][i].err, now).cb)]
    /\ pol' = [pol EXCEPT ![a][i] = [@ EXCEPT !.pc = "caught", !.err = NoError]]
    /\ UNCHANGED <<pool, tasks, acct, main, notOrchVars>>

\* the NameError of the log line reaches the wrapper: record_failure and
\* re-raise; the raising process_policy is dropped by process_account
PolWrapperFailure(a, i) ==
    /\ pol[a][i].pc = "wrapper_failure"
    /\ cbs' = [cbs EXCEPT !.policy_tags =
                 Slots(record_failure(@, pol[a][i].err, now).cb)]
    /\ pol' = [pol EXCEPT ![a][i] = [@ EXCEPT !.pc = "done", !.err = NoError]]
    /\ UNCHANGED <<pool, tasks, acct, main, notOrchVars>>

\* after the except clause returned {}: the wrapper's record_success
PolCaught(a, i) ==
    /\ pol[a][i].pc = "caught"
    /\ cbs' = [cbs EXCEPT !.policy_tags = Slots(record_success(@, now).cb)]
    /\ pol' = [pol EXCEPT ![a][i] = [@ EXCEPT !.pc = "record", !.tags = "empty"]]
    /\ UNCHANGED <<pool, tasks, acct, main, notOrchVars>>

\* process_policy's own tag_cb.record_success(); its result is appended to
\* the account's policies
PolRecord(a, i) ==
    /\ pol[a][i].pc = "record"
    /\ cbs' = [cbs EXCEPT !.policy_tags = Slots(record_success(@, now).cb)]
    /\ pol' = [pol EXCEPT ![a][i].pc = "done"]
    /\ acct' = [acct EXCEPT ![a].policies =
                  @ \cup {[item |-> i, tags |-> pol[a][i].tags]}]
    /\ UNCHANGED <<pool, tasks, main, notOrchVars>>

\* all policy tasks are over: assume_role_cb.record_success() and the
\* success result
PAFinal(a) ==
    /\ acct[a].pc = "policies"
    /\ \A i \in Items : pol[a][i].pc \in {"none", "done"}
    /\ cbs' = [cbs EXCEPT !.assume_role = Slots(record_success(@, now).cb)]
    /\ acct' = [acct EXCEPT ![a] = Finish(a, "success", @)]
    /\ UNCHANGED <<pool, tasks, pol, main, notOrchVars>>

\* as_completed yields the future of task a: account_id is assigned, the
\* result is stored under it and the policies of a success are added to
\* all_policies
MCollect(a) ==
    /\ main.pc = "collect"
    /\ acct[a].pc = "finished"
    /\ main' = [main EXCEPT
                  !.bound = TRUE,
                  !.results[tasks[a].id] =
                      [ status |-> acct[a].status,
                        policies |-> acct[a].policies, task |-> a ],
                  !.all_policies =
                      @ \cup {[task |-> a, item |-> q.item, tags |-> q.tags] :
                                q \in acct[a].policies}]
    /\ acct' = [acct EXCEPT ![a].pc = "collected"]
    /\ UNCHANGED <<cbs, pool, tasks, pol, notOrchVars>>

\* the policies of a list whose Tags are not empty
Tagged(policies) == {q \in policies : q.tags = "tagged"}

\* the 'statistics' of an account result: counted from its policies in a
\* success result, the zero dictionary of the call in every other result
statistics(result) ==
    IF result.status = "success"
    THEN [ total |-> Cardinality(result.policies),
           tagged |-> Cardinality(Tagged(result.policies)),
           untagged |-> Cardinality(result.policies)
                          - Cardinality(Tagged(result.policies)) ]
    ELSE [ total |-> 0, tagged |-> 0, untagged |-> 0 ]

\* the entries of results['accounts'] with the given status
EntriesWith(status) ==
    {id \in AccountIds : main.results[id].status = status}

\* every future was collected: the summary is computed from the entries of
\* the result map and the call returns
MSummary ==
    /\ main.pc = "collect"
    /\ \A a \in Accounts : acct[a].pc = "collected"
    /\ main' = [main EXCEPT
                  !.pc = "returned",
                  !.summary =
                      [ total_accounts |-> Cardinality(Accounts),
                        successful_accounts |-> Cardinality(EntriesWith("success")),
                        failed_accounts |-> Cardinality(EntriesWith("failed")),
                        circuit_open_accounts |->
                            Cardinality(EntriesWith("circuit_open")),
                        total_policies |-> Cardinality(main.all_policies),
                        tagged_policies |-> Cardinality(Tagged(main.all_policies)),
                        untagged_policies |->
                            Cardinality(main.all_policies)
                              - Cardinality(Tagged(main.all_policies)) ]]
    /\ UNCHANGED <<cbs, pool, tasks, acct, pol, notOrchVars>>

\* time passes during the call
OrchTick ==
    /\ main.pc \in {"submit", "collect", "shutdown"}
    /\ now < Epoch + OrchMaxTime
    /\ now' = now + 1
    /\ UNCHANGED <<cb, gc, last, streak, tally, nonBreakerVars>>

\* the steps of the calling thread and of the workers of both pools
OrchSteps ==
    \/ MCall
    \/ MCallNoList
    \/ MErrorReturn
    \/ \E a \in Accounts :
          \/ MSubmit(a)
          \/ MSubmitRaises(a)
          \/ PAStart(a)
          \/ PAAssumeAllow(a)
          \/ \E out \in AssumeOutcomes, identity \in {NoError} \cup OrchErrors :
                PAAssume(a, out, identity)
          \/ PAAssumeCaught(a)
          \/ PAClientRaises(a)
          \/ PAListAllow(a)
          \/ PAListWrapperAllow(a)
          \/ \E listing \in Listings(a) : PAList(a, listing)
          \/ \E error \in OrchErrors : PAListRaises(a, error)
          \/ PAListRecord(a)
          \/ PAPoolExit(a)
          \/ PAFinal(a)
          \/ MCollect(a)
          \/ \E i \in Items :
                \/ PSubmit(a, i)
                \/ PSubmitRaises(a, i)
                \/ PolStart(a, i)
                \/ \E out \in {NoError, NoTags} \cup OrchErrors :
                      PolRemote(a, i, out)
                \/ PolInnerFailure(a, i)
                \/ PolWrapperFailure(a, i)
                \/ PolCaught(a, i)
                \/ PolRecord(a, i)
    \/ MSummary

OrchNext ==
    \/ OrchTick
    \/ OrchSteps

\* one call of list_policy_properties_multi_account
OrchSpec == OrchInit /\ [][OrchNext]_vars

\* a call on a list that names every account once, with every remote call
\* answering and every worker thread and the calling thread scheduled: a
\* step of the call that stays possible is taken, while time passes as it
\* likes
OrchLiveSpec == OrchLiveInit /\ [][OrchNext]_vars /\ WF_vars(OrchSteps)

Next ==
    \/ Tick
    \/ AllowRequest
    \/ RecordSuccess
    \/ \E error \in Errors : RecordFailure(error)
    \/ Reset
    \/ \E t \in Threads, fb \in BOOLEAN : GCAllow(t, fb)
    \/ \E t \in Threads : GCDenied(t)
    \/ \E t \in Threads, error \in RaisedErrors \cup {NoError} : GCInvoke(t, error)
    \/ \E t \in Threads : GCRecordSuccess(t)
    \/ \E t \in Threads : GCRecordFailure(t)
    \/ \E t \in Threads : GCReturn(t)

Spec == Init /\ [][Next]_vars

(* ------------------------------ properties ---------------------------- *)
Elapsed == now - cb.last_failure_time

\* C1: after exactly failure_threshold consecutive Transient record_failure
\* calls on a breaker that was CLOSED with failure_count 0, get_state() is
\* OPEN; after fewer it is still CLOSED.
C1_ThresholdOpens ==
    streak >= 0 =>
        /\ streak < cb.failure_threshold => get_state(cb) = CLOSED
        /\ streak = cb.failure_threshold => get_state(cb) = OPEN

C1_Witness ==
    /\ cb.failure_threshold = MaxThreshold
    /\ streak = cb.failure_threshold
    /\ get_state(cb) = OPEN

\* C2 as stated: on an OPEN breaker allow_request() returns false and stays
\* OPEN while t - last_failure_time < recovery_timeout, and returns true and
\* flips to HALF-OPEN once t - last_failure_time >= recovery_timeout.
C2_Original ==
    (last.op = "allow_request" /\ last.from = OPEN) =>
        IF Elapsed < cb.recovery_timeout
        THEN last.ret = "False" /\ cb.state = OPEN
        ELSE last.ret = "True" /\ cb.state = HALF_OPEN

\* C2 amended: on an OPEN breaker allow_request() returns false and stays
\* OPEN while t - last_failure_time <= recovery_timeout, and returns true
\* and flips to HALF-OPEN only once t - last_failure_time > recovery_timeout.
C2_StrictRecoveryGate ==
    (last.op = "allow_request" /\ last.from = OPEN) =>
        IF Elapsed <= cb.recovery_timeout
        THEN last.ret = "False" /\ cb.state = OPEN
        ELSE last.ret = "True" /\ cb.state = HALF_OPEN

C2_Witness ==
    /\ last.op = "allow_request" /\ last.from = OPEN
    /\ Elapsed = cb.recovery_timeout
    /\ last.ret = "False"

\* C3: record_success() on a HALF-OPEN breaker moves it to CLOSED and sets
\* failure_count to 0.
C3_SuccessCloses ==
    (last.op = "record_success" /\ last.from = HALF_OPEN) =>
        cb.state = CLOSED /\ cb.failure_count = 0

C3_Witness ==
    /\ last.op = "record_success" /\ last.from = HALF_OPEN
    /\ last.count > 0
    /\ cb.state = CLOSED

\* C4 as stated: on a HALF-OPEN breaker every record_failure call, whatever
\* the error, moves the breaker to OPEN.
C4_Original ==
    (last.op = "record_failure" /\ last.from = HALF_OPEN) => cb.state = OPEN

\* C4 amended: on a HALF-OPEN breaker a record_failure call moves the
\* breaker to OPEN unless the error is a ClientError whose code is not
\* listed, which leaves it HALF-OPEN.
C4_HalfOpenFailure ==
    (last.op = "record_failure" /\ last.from = HALF_OPEN) =>
        cb.state = IF ErrorKind(last.error) = "Permanent" THEN HALF_OPEN ELSE OPEN

C4_Witness ==
    /\ last.op = "record_failure" /\ last.from = HALF_OPEN
    /\ ErrorKind(last.error) = "Transient"
    /\ cb.state = OPEN

\* C5 as stated: record_failure(error) counts and may flip the state only
\* for a Transient error; for a Permanent or Unknown error state and
\* failure_count are unchanged.
C5_Original ==
    last.op = "record_failure" =>
        IF ErrorKind(last.error) = "Transient"
        THEN cb.failure_count = last.count + 1
        ELSE cb.failure_count = last.count /\ cb.state = last.from

\* C6: on a CLOSED breaker with failure_count > 0 whose last recorded
\* failure is more than reset_timeout ago, allow_request() sets
\* failure_count to 0, leaves the state CLOSED and returns true.
C6_QuietPeriodResets ==
    (/\ last.op = "allow_request" /\ last.from = CLOSED /\ last.count > 0
     /\ Elapsed > cb.reset_timeout) =>
        cb.failure_count = 0 /\ cb.state = CLOSED /\ last.ret = "True"

C6_Witness ==
    /\ last.op = "allow_request" /\ last.from = CLOSED /\ last.count > 0
    /\ Elapsed > cb.reset_timeout
    /\ cb.failure_count = 0

\* C7 as stated: whenever the state is HALF-OPEN, failure_count = 0.
C7_Original ==
    cb.state = HALF_OPEN => cb.failure_count = 0

\* C7 amended: HALF-OPEN is entered with failure_count unchanged from the
\* OPEN state, so whenever the state is HALF-OPEN failure_count is at least
\* failure_threshold; only CLOSED can have failure_count 0.
C7_HalfOpenKeepsCount ==
    /\ cb.state = HALF_OPEN => cb.failure_count >= cb.failure_threshold
    /\ (last.op = "allow_request" /\ last.from = OPEN) =>
           cb.failure_count = last.count
    /\ cb.failure_count = 0 => cb.state = CLOSED

C7_Witness ==
    /\ last.op = "allow_request" /\ last.from = OPEN
    /\ cb.state = HALF_OPEN
    /\ cb.failure_count > 0

\* C8 as stated: once the breaker is HALF-OPEN, every further
\* allow_request() call returns false until an outcome is recorded.
C8_Original ==
    (last.op = "allow_request" /\ last.from = HALF_OPEN) => last.ret = "False"

\* C8 amended: once the breaker is HALF-OPEN, every allow_request() call
\* from any thread returns true and leaves it HALF-OPEN.
C8_HalfOpenAdmitsAll ==
    (last.op = "allow_request" /\ last.from = HALF_OPEN) =>
        last.ret = "True" /\ cb.state = HALF_OPEN

C8_Witness ==
    /\ last.op = "allow_request" /\ last.from = HALF_OPEN
    /\ \E t \in Threads : gc[t].pc = "allowed"
    /\ last.ret = "True"

\* C9: reset() leaves the breaker as a freshly constructed one: CLOSED,
\* failure_count 0, last_failure_time cleared, requests allowed.
C9_ResetIsFresh ==
    last.op = "reset" =>
        /\ cb = NewBreaker(cb.failure_threshold, cb.recovery_timeout,
                           cb.reset_timeout, now)
        /\ get_state(cb) = CLOSED
        /\ allow_request(cb, now) = [cb |-> cb, ret |-> TRUE]

C9_Witness ==
    /\ last.op = "reset" /\ last.from = HALF_OPEN /\ last.count > 0
    /\ cb.state = CLOSED /\ cb.last_failure_time = 0

\* C10: when allow_request() returned false to the wrapper, the wrapped
\* function is not invoked, the wrapper records neither success nor failure,
\* and the call ends with the fallback's result if there is a fallback, else
\* with CircuitBreakerOpenError.
C10_DeniedPath ==
    \A t \in Threads :
        (gc[t].pc # "idle" /\ ~gc[t].allowed) =>
            /\ gc[t].pc \in {"denied", "done"}
            /\ gc[t].invoked = 0
            /\ gc[t].recorded = 0
            /\ gc[t].pc = "done" =>
                   gc[t].outcome = IF gc[t].fallback THEN "fallback"
                                   ELSE "CircuitBreakerOpenError"

C10_Witness ==
    \E t \in Threads :
        /\ gc[t].pc = "done" /\ ~gc[t].allowed
        /\ ~gc[t].fallback
        /\ gc[t].outcome = "CircuitBreakerOpenError"

\* the record_success / record_failure calls made for thread t's guarded
\* invocation: by the wrapper, inside the decorated function, by the caller
Successes(t) ==
    oc[t].successes
    + (IF gc[t].recorded = 1 /\ gc[t].outcome = "result" THEN 1 ELSE 0)
Failures(t) ==
    oc[t].failures
    + (IF gc[t].recorded = 1 /\ gc[t].outcome = "error" THEN 1 ELSE 0)

\* C11 as stated: at every call site of the orchestrator, a guarded
\* invocation that passed allow_request() records exactly one outcome,
\* record_success iff the remote call succeeded and record_failure iff it
\* failed, and the caller gets the result or the error itself.
C11_Original ==
    \A t \in Threads :
        (oc[t].pc # "idle" /\ gc[t].allowed /\ gc[t].pc = "done") =>
            /\ Successes(t) + Failures(t) = 1
            /\ Successes(t) = 1 <=> oc[t].remote = "ok"
            /\ Failures(t) = 1 <=> oc[t].remote = "failed"
            /\ gc[t].outcome = IF oc[t].remote = "ok" THEN "result" ELSE "error"

\* the threads whose record_failure call has returned
RaceDone == {t \in RaceThreads : rf[t].pc = "done"}

\* C12: when N threads have concurrently called record_failure with a
\* Transient error on a fresh shared breaker and all calls have returned,
\* failure_count is exactly N, and get_state() is OPEN if and only if the
\* count has reached failure_threshold.
C12_NoLostIncrement ==
    (\A t \in RaceThreads : rf[t].pc \in {"idle", "done"}) =>
        /\ cb.failure_count = Cardinality(RaceDone)
        /\ get_state(cb) = OPEN <=> cb.failure_count >= cb.failure_threshold

C12_Witness ==
    /\ \A t \in RaceThreads : rf[t].pc = "done"
    /\ cb.failure_count = Cardinality(RaceThreads)
    /\ get_state(cb) = OPEN

\* C15: an acquire_lock call whose put_object succeeds on a store without
\* <key>.lock returns success and a lock_id different from every lock_id
\* issued before, and afterwards the lock object holds exactly that lock_id.
C15_FreshAcquire ==
    (lastLock.op = "acquire" /\ lastLock.ok /\ lastLock.before = NoLock) =>
        /\ lastLock.ret
        /\ lastLock.id \notin 0..lastLock.issued
        /\ lockObj # NoLock /\ lockObj.lock_id = lastLock.id

C15_Witness ==
    /\ lastLock.op = "acquire" /\ lastLock.ok /\ lastLock.before = NoLock
    /\ lastLock.issued > 0
    /\ lockObj.lock_id = lastLock.id

\* C16: check_stale_lock classifies the lock object and changes nothing:
\* absent gives (False, None); present with now > expires gives
\* (True, record); present and not expired gives (False, record).  The
\* object is what its get_object read (got), now the clock as it is read
\* after that (at).
C16_CheckStaleClassifies ==
    lastLock.op = "check_stale" =>
        /\ lockObj = lastLock.before
        /\ lastLock.ok =>
              IF lastLock.got = NoLock
              THEN ~lastLock.ret /\ lastLock.rec = NoLock
              ELSE /\ lastLock.rec = lastLock.got
                   /\ lastLock.ret <=> lastLock.at > lastLock.got.expires

C16_Witness ==
    /\ lastLock.op = "check_stale" /\ lastLock.ok
    /\ lastLock.got # NoLock
    /\ lastLock.ret
    /\ lockObj = lastLock.before

\* C17: with <key>.lock present and expired, check_stale_lock reports stale,
\* break_stale_lock removes the lock object and returns True, and the
\* acquire_lock that follows it succeeds, the lock object then holding the
\* new caller's lock_id (the S3 requests answering).
C17_StaleRecovery ==
    /\ (/\ lastLock.op \in {"check_stale", "break_stale"}
        /\ lastLock.ok
        /\ lastLock.got # NoLock
        /\ lastLock.at > lastLock.got.expires) =>
            /\ lastLock.ret
            /\ lastLock.op = "break_stale" => lockObj = NoLock
    /\ (/\ lastLock.op = "acquire"
        /\ lastLock.prev = "break_stale"
        /\ lastLock.ok) =>
            /\ lastLock.ret
            /\ lockObj # NoLock /\ lockObj.lock_id = lastLock.id

C17_Witness ==
    /\ lastLock.op = "acquire" /\ lastLock.prev = "break_stale"
    /\ lastLock.ok /\ lastLock.ret
    /\ lockObj.lock_id = lastLock.id

\* C18 as stated: under every interleaving, break_stale_lock never deletes a
\* lock record that is unexpired when it is deleted, and it changes nothing
\* when it returns False.
C18_Original ==
    lastLock.op = "break_stale" =>
        /\ lastLock.deleted # NoLock => lastLock.at > lastLock.deleted.expires
        /\ ~lastLock.ret => lockObj = lastLock.before

\* C19 as stated: under every interleaving, release_lock(lock_id) never
\* removes a lock record whose lock_id differs from the caller's, and on a
\* mismatch it returns False and leaves the store unchanged.
C19_Original ==
    lastLock.op = "release" =>
        /\ lastLock.deleted # NoLock => lastLock.deleted.lock_id = lastLock.id
        /\ (lastLock.before # NoLock /\ lastLock.before.lock_id # lastLock.id
               /\ lastLock.deleted = NoLock) =>
              ~lastLock.ret /\ lockObj = lastLock.before

\* C20: release_lock called again with a lock_id whose release already
\* returned True returns False and leaves the store unchanged, whether the
\* lock object is absent or holds another owner's record.
C20_SecondReleaseNoOp ==
    (lastLock.op = "release" /\ lastLock.again) =>
        /\ ~lastLock.ret
        /\ lastLock.deleted = NoLock
        /\ lockObj = lastLock.before

C20_Witness ==
    /\ lastLock.op = "release" /\ lastLock.again
    /\ lastLock.before # NoLock /\ lastLock.before.lock_id # lastLock.id
    /\ lockObj = lastLock.before

\* the processes that are inside their writer function
InWriter == {p \in Procs : lp[p].pc = "writer"}

\* C13 as stated: of the processes that are inside write_with_lock on the
\* same key, at no time are two executing their writer function.
C13_Original == Cardinality(InWriter) <= 1

\* C21: in write_with_lock the writer runs at most once, release_lock is
\* called only after the writer has finished, and when the call is over
\* after a successful acquire_lock the writer has run once, release_lock has
\* been called exactly once with the acquired lock_id, and the call ends
\* with what the writer did: its result, or its exception.
C21_ReleaseAlways ==
    \A p \in Procs :
        /\ lp[p].calls.writer <= 1
        /\ lp[p].calls.release <= lp[p].calls.writer
        /\ (lp[p].pc = "done" /\ lp[p].lock_id # 0) =>
              /\ lp[p].calls.writer = 1
              /\ lp[p].calls.release = 1
              /\ lp[p].rel_id = lp[p].lock_id
              /\ lp[p].status = lp[p].wret

C21_Witness ==
    \E p \in Procs :
        /\ lp[p].pc = "done" /\ lp[p].lock_id # 0
        /\ lp[p].wret = "raised"
        /\ lp[p].calls.release = 1

\* C22: when every acquire_lock of a write_with_lock call has failed, the
\* call has made exactly max_attempts acquire attempts, has called
\* break_stale_lock before each of them but the first, has not run the
\* writer and returns the result with status "error" (no exception).
C22_Exhaustion ==
    \A p \in Procs :
        /\ lp[p].pc \in {"acquire", "acquire_put"} =>
              lp[p].calls.break_stale = lp[p].attempt
        /\ lp[p].lock_id = 0 =>
              /\ lp[p].calls.writer = 0
              /\ lp[p].calls.acquire = lp[p].attempt
              /\ lp[p].calls.acquire <= MaxAttempts
        /\ (lp[p].pc = "done" /\ lp[p].lock_id = 0) =>
              /\ lp[p].calls.acquire = MaxAttempts
              /\ lp[p].calls.break_stale = MaxAttempts - 1
              /\ lp[p].status = "error"

C22_Witness ==
    \E p \in Procs :
        /\ lp[p].pc = "done" /\ lp[p].lock_id = 0
        /\ lp[p].calls.acquire = MaxAttempts
        /\ lp[p].status = "error"

(* ---------------------- orchestrator properties ---------------------- *)
\* the account ids under which the result map has an entry
Entries == {id \in AccountIds : main.results[id] # NoEntry}

\* C23 as stated: when the call has returned its results, the result map
\* has exactly one entry per input account task, under the task's
\* account_id, whatever the status of the task.
C23_Original ==
    (main.pc = "returned" /\ ~main.error) =>
        /\ Cardinality(Entries) = Cardinality(Accounts)
        /\ \A a \in Accounts : main.results[tasks[a].id].task = a

\* the tasks whose role assumption failed: the operation raised (the
\* assume_role call or the identity check after it), returned no session,
\* or the fallback answered
AssumeFailed ==
    {a \in Accounts :
        acct[a].assume_out \in {"raised", "raised_permanent", "identity_raised",
                                "none", "fallback"}}

\* C24: an account task whose role assumption failed (the operation raised,
\* returned no session, or the fallback returned no session) invokes
\* neither the listing nor a tag fetch, ends with status failed and no
\* policies, and that is the result stored for it.
C24_AssumeFailureStops ==
    \A a \in AssumeFailed :
        /\ acct[a].invoked \cap {"list_policies", "policy_tags"} = {}
        /\ acct[a].pc \in {"assume_caught", "finished", "collected"}
        /\ \A i \in Items : pol[a][i] = NoPolicy
        /\ acct[a].pc \in {"finished", "collected"} =>
              acct[a].status = "failed" /\ acct[a].policies = {}
        /\ main.results[tasks[a].id].task = a =>
              /\ main.results[tasks[a].id].status = "failed"
              /\ main.results[tasks[a].id].policies = {}

C24_Witness ==
    /\ main.pc = "returned"
    /\ \E a, b \in Accounts :
          /\ acct[a].assume_out = "fallback" /\ acct[b].assume_out = "raised"
          /\ main.results[tasks[a].id].task = a
          /\ main.results[tasks[a].id].status = "failed"

\* C25: an account task whose listing operation raised ends with status
\* failed, and failed is the status stored for it in the result map.
C25_ListFailureFails ==
    \A a \in Accounts :
        acct[a].list_out = "raised" =>
            /\ acct[a].pc \in {"finished", "collected"}
            /\ acct[a].status = "failed"
            /\ main.results[tasks[a].id].task = a =>
                  main.results[tasks[a].id].status = "failed"

C25_Witness ==
    /\ main.pc = "returned"
    /\ \E a \in Accounts :
          /\ acct[a].list_out = "raised" /\ acct[a].assume_out = "ok"
          /\ main.results[tasks[a].id].task = a
          /\ main.results[tasks[a].id].status = "failed"

\* the policies in the result of account task a
ResultItems(a) == {q.item : q \in acct[a].policies}

\* the policies of account a whose tag fetch raised, or was denied and
\* ended in the fallback's TypeError
FailedFetches(a) ==
    {i \in acct[a].listed : pol[a][i].out \in {"raised", "fallback_error"}}

\* C26 as stated: an account task whose listing returned n policies, all
\* of them submitted to the account's pool, of which k tag fetches failed
\* ends with status success and with exactly the n - k policies whose fetch
\* did not fail (the failed ones are excluded, every sibling is present).
C26_Original ==
    \A a \in Accounts :
        ( /\ acct[a].pc \in {"finished", "collected"}
          /\ acct[a].list_out = "ok" /\ acct[a].rejected = "" ) =>
            /\ acct[a].status = "success"
            /\ ResultItems(a) = acct[a].listed \ FailedFetches(a)
            /\ Cardinality(acct[a].policies) =
                  Cardinality(acct[a].listed) - Cardinality(FailedFetches(a))

\* the tasks whose role assumption raised a Permanent error (a ClientError
\* whose code is not listed, such as AccessDenied)
PermanentFailed ==
    {a \in Accounts : acct[a].assume_out = "raised_permanent"}

\* the call was made with a list of accounts and no remote call has failed
\* but role assumptions raising a Permanent error
PermanentOnly ==
    /\ main.pc \notin {"idle", "escaped"}
    /\ \A a \in Accounts :
          /\ acct[a].assume_out \notin {"raised", "identity_raised", "none"}
          /\ acct[a].list_out # "raised"
          /\ \A i \in Items : pol[a][i].out # "raised"

\* C27 as stated: when role assumption raises a Permanent error for a
\* subset of the accounts and the remote calls of the other accounts
\* succeed, no breaker ever leaves CLOSED, every task that is over has the
\* status failed if it is one of the failing accounts and success
\* otherwise, and when the call is over the failing accounts are stored as
\* failed, every other account as success, and summary.successful_accounts
\* is the number of the other accounts (an account listed twice answering
\* the same both times).
C27_Original ==
    PermanentOnly =>
        /\ \A s \in Sites : cbs[s].state = CLOSED
        /\ \A a \in Accounts :
              acct[a].pc \in {"finished", "collected"} =>
                  acct[a].status = IF a \in PermanentFailed THEN "failed"
                                   ELSE "success"
        /\ ( /\ main.pc = "returned"
              /\ \A a, b \in Accounts :
                    tasks[a].id = tasks[b].id =>
                        (a \in PermanentFailed <=> b \in PermanentFailed) ) =>
              /\ \A a \in Accounts :
                    main.results[tasks[a].id].status =
                        IF a \in PermanentFailed THEN "failed" ELSE "success"
              /\ main.summary.successful_accounts =
                    Cardinality({tasks[a].id : a \in Accounts \ PermanentFailed})

\* the status of account task a as its own calls decide it: failed when
\* its role assumption or the identity check fails, when the IAM client
\* cannot be made, when its listing fails or when a policy task cannot be
\* submitted, success otherwise
OwnStatus(a) ==
    IF \/ acct[a].assume_out \in {"raised", "raised_permanent",
                                  "identity_raised", "none"}
       \/ acct[a].list_out \in {"raised", "client_error"}
       \/ acct[a].rejected # ""
    THEN "failed" ELSE "success"

\* C28 as stated: for accounts with distinct ids that the pool runs
\* concurrently, the status stored for an account when the call returns is
\* the same under every schedule: the one the schedule in which the
\* account's calls come first gives it, decided by the outcomes of its own
\* remote calls.
C28_Original ==
    ( /\ main.pc = "returned" /\ ~main.error
      /\ tasks["a1"].id # tasks["a2"].id
      /\ pool.max_accounts = Cardinality(Accounts) ) =>
        \A a \in Accounts : main.results[tasks[a].id].status = OwnStatus(a)

\* the resource tasks in flight
InFlight == {<<a, i>> \in Accounts \X Items : i \in RunningPolicies(a)}

\* C29: at most max_accounts_concurrency account tasks are running, at most
\* max_workers resource tasks are running within each account, resource
\* tasks run only within running accounts (also after a submit has failed,
\* when the pools run what is left in their queues), and so at most
\* max_accounts_concurrency x max_workers resource tasks are in flight.
C29_BoundedConcurrency ==
    /\ Cardinality(RunningAccounts) <= pool.max_accounts
    /\ \A a \in Accounts :
          /\ Cardinality(RunningPolicies(a)) <= pool.max_workers
          /\ RunningPolicies(a) # {} => a \in RunningAccounts
    /\ Cardinality(InFlight) <= pool.max_accounts * pool.max_workers

C29_Witness ==
    /\ pool.max_accounts = 1 /\ pool.max_workers = 1
    /\ \E a, b \in Accounts :
          /\ acct[b].pc = "queued" /\ a \in RunningAccounts
          /\ \E i, j \in Items :
                pol[a][i].pc = "remote" /\ pol[a][j].pc = "queued"

\* C30 as stated: no exception leaves list_policy_properties_multi_account
\* for any input: a failing remote call ends in the result of its task, a
\* failure in the calling thread ends in the error result, and what the
\* call returns has a summary with the account counts.
C30_Original ==
    /\ main.pc \in {"idle", "submit", "collect", "shutdown", "returned"}
    /\ \A a \in Accounts :
          (acct[a].assume_out \in {"raised", "identity_raised"}
              \/ acct[a].list_out = "raised") =>
              acct[a].pc \in {"assume_caught", "finished", "collected"}
    /\ main.pc = "returned" =>
          /\ main.summary.total_accounts = Cardinality(Accounts)
          /\ main.summary.successful_accounts >= 0
          /\ main.summary.failed_accounts >= 0
          /\ main.summary.circuit_open_accounts >= 0
          /\ main.error =>
                /\ main.summary.failed_accounts = Cardinality(Accounts)
                /\ main.summary.successful_accounts = 0

\* C31 as stated: in a returned result the three status counts add up to
\* total_accounts, which is the number of input account tasks and the
\* number of entries of the result map, and each count is the number of
\* map entries with that status.
C31_Original ==
    (main.pc = "returned" /\ ~main.error) =>
        /\ main.summary.successful_accounts + main.summary.failed_accounts
              + main.summary.circuit_open_accounts = main.summary.total_accounts
        /\ main.summary.total_accounts = Cardinality(Accounts)
        /\ main.summary.total_accounts = Cardinality(Entries)
        /\ main.summary.successful_accounts = Cardinality(EntriesWith("success"))
        /\ main.summary.failed_accounts = Cardinality(EntriesWith("failed"))
        /\ main.summary.circuit_open_accounts =
              Cardinality(EntriesWith("circuit_open"))

\* the sum of statistics.total over the entries of the result map with
\* status success (AccountIds has two elements)
SuccessTotal ==
    LET total(id) == IF main.results[id].status = "success"
                     THEN statistics(main.results[id]).total ELSE 0
    IN  total("111") + total("222")

\* C32 as stated: in a returned result summary.total_policies is the sum of
\* statistics.total over the accounts with status success, tagged +
\* untagged = total holds in every account's statistics and in the
\* summary, and failed and circuit_open accounts have no policies.
C32_Original ==
    (main.pc = "returned" /\ ~main.error) =>
        /\ main.summary.total_policies = SuccessTotal
        /\ main.summary.tagged_policies + main.summary.untagged_policies
              = main.summary.total_policies
        /\ \A id \in Entries :
              /\ statistics(main.results[id]).tagged
                    + statistics(main.results[id]).untagged
                    = statistics(main.results[id]).total
              /\ main.results[id].status \in {"failed", "circuit_open"} =>
                    /\ main.results[id].policies = {}
                    /\ statistics(main.results[id]).total = 0

(* ------------------------- breaker properties ------------------------ *)
\* a step that changes the state of the breaker is one of the five
\* transitions, made by the method that goes with it
Transition ==
    \/ cb.state = CLOSED /\ cb'.state = OPEN /\ last'.op = "record_failure"
    \/ cb.state = OPEN /\ cb'.state = HALF_OPEN /\ last'.op = "allow_request"
    \/ cb.state = HALF_OPEN /\ cb'.state = CLOSED /\ last'.op = "record_success"
    \/ cb.state = HALF_OPEN /\ cb'.state = OPEN /\ last'.op = "record_failure"
    \/ cb'.state = CLOSED /\ last'.op = "reset"

\* C33: the only state changes of a breaker are CLOSED -> OPEN in
\* record_failure, OPEN -> HALF-OPEN in allow_request, HALF-OPEN -> CLOSED
\* in record_success, HALF-OPEN -> OPEN in record_failure and any -> CLOSED
\* in reset; the passage of time and get_state change nothing.
C33_OnlyTheseTransitions ==
    [][ /\ cb'.state # cb.state => Transition
        /\ (last'.op \in {"none", "get_state"}) => cb' = cb ]_vars

C33_Witness ==
    /\ cb.state = HALF_OPEN
    /\ last.op = "allow_request" /\ last.from = OPEN /\ last.ret = "True"

\* C35: record_success() on a CLOSED or OPEN breaker leaves state and
\* failure_count as they were, so the Transient failures recorded since
\* the count was last zero add up whatever successes come between them:
\* below failure_threshold the breaker is CLOSED with that count, from
\* failure_threshold on it is not CLOSED.
C35_SuccessKeepsCount ==
    /\ (last.op = "record_success" /\ last.from \in {CLOSED, OPEN}) =>
           cb.state = last.from /\ cb.failure_count = last.count
    /\ tally >= 0 =>
           /\ tally < cb.failure_threshold =>
                  cb.state = CLOSED /\ cb.failure_count = tally
           /\ tally >= cb.failure_threshold => cb.state # CLOSED

C35_Witness ==
    /\ last.op = "record_success" /\ last.from = CLOSED
    /\ tally >= 1 /\ tally = cb.failure_threshold - 1
    /\ cb.failure_count = tally

\* C36: whatever calls were made, a CLOSED breaker has failure_count below
\* failure_threshold and an OPEN breaker has failure_count at or above it.
C36_CountMatchesState ==
    /\ cb.failure_threshold >= 1
    /\ cb.state = CLOSED => cb.failure_count < cb.failure_threshold
    /\ cb.state = OPEN => cb.failure_count >= cb.failure_threshold

C36_Witness ==
    /\ cb.state = OPEN /\ cb.failure_count > cb.failure_threshold
    /\ last.op = "record_failure" /\ last.from = OPEN

\* the times at which allow_request can be called later on
Later == now..(Epoch + MaxTime + MaxRecovery + MaxReset + 1)

\* C38 as stated: recording a Permanent or Unknown failure on an OPEN
\* breaker changes at no later time what allow_request() returns, and
\* recording one on a breaker that stays CLOSED delays at no later time
\* the reset of failure_count by allow_request().
C38_Original ==
    [][ (last'.op = "record_failure" /\ ErrorKind(last'.error) # "Transient") =>
          /\ cb.state = OPEN =>
                \A t \in Later :
                    allow_request(cb', t).ret = allow_request(cb, t).ret
          /\ (cb.state = CLOSED /\ cb.failure_count > 0 /\ cb'.state = CLOSED) =>
                \A t \in Later :
                    allow_request(cb, t).cb.failure_count = 0 =>
                        allow_request(cb', t).cb.failure_count = 0 ]_vars

\* this step is made by thread t at its call site
StepOf(t) == gc'[t] # gc[t] \/ oc'[t] # oc[t]

\* thread t is in a guarded call that passed allow_request(), invoked the
\* remote operation and got its result
ClosingCall(t) ==
    /\ gc[t].allowed /\ gc[t].invoked = 1
    /\ oc[t].remote = "ok"

\* C37 as stated: at the orchestrator's call sites a thread takes a breaker
\* from HALF-OPEN to CLOSED only in a guarded call that passed
\* allow_request(), was invoked and whose remote call succeeded; never
\* after a fallback result, a caught error, or a denied or failed call.
\* (The record_success calls of the other threads are not judged here.)
C37_Original ==
    [][ \A t \in Threads :
          (cb.state = HALF_OPEN /\ cb'.state = CLOSED /\ StepOf(t))
              => ClosingCall(t) ]_vars

\* C39: an account is reported success only if its listing was invoked and
\* returned normally.  An account whose guarded listing call was denied,
\* because another thread opened the list breaker after this account's
\* explicit allow_request(), is reported failed with no policies, never
\* success with the fallback's empty list.
C39_SuccessMeansListed ==
    \A a \in Accounts :
        acct[a].pc \in {"finished", "collected"} =>
            /\ acct[a].status = "success" =>
                   /\ "list_policies" \in acct[a].invoked
                   /\ acct[a].list_out = "ok"
            /\ acct[a].list_out \notin {"", "ok", "raised", "denied"} =>
                   /\ acct[a].status = "failed"
                   /\ acct[a].policies = {}
                   /\ "list_policies" \notin acct[a].invoked

\* an account passed the explicit check, another account's listing then
\* opened the breaker, and the guarded call of the first was denied
C39_Witness ==
    \E a, b \in Accounts :
        /\ acct[a].pc = "collected" /\ acct[a].status = "failed"
        /\ acct[a].assume_out = "ok"
        /\ acct[a].list_out = "fallback_error"
        /\ acct[b].list_out = "raised"
        /\ cbs.list_policies.state = OPEN

\* C40: an account whose explicit assume_role_cb.allow_request() was denied
\* is finished at once with status circuit_open and no policies, is stored
\* so in the result, and no role assumption, listing or tag fetch was
\* invoked for it.
C40_DeniedAccountUntouched ==
    \A a \in Accounts :
        acct[a].assume_out = "denied" =>
            /\ acct[a].pc \in {"finished", "collected"}
            /\ acct[a].status = "circuit_open"
            /\ acct[a].policies = {}
            /\ acct[a].invoked = {}
            /\ acct[a].list_out = ""
            /\ \A i \in Items : pol[a][i] = NoPolicy
            /\ main.results[tasks[a].id].task = a =>
                   /\ main.results[tasks[a].id].status = "circuit_open"
                   /\ main.results[tasks[a].id].policies = {}

\* the call has returned with a denied account in its result, next to an
\* account whose role assumption was invoked
C40_Witness ==
    /\ main.pc = "returned"
    /\ \E a, b \in Accounts :
          /\ acct[a].assume_out = "denied" /\ acct[a].pc = "collected"
          /\ main.results[tasks[a].id].task = a
          /\ "assume_role" \in acct[b].invoked

\* no task of the call is running, and none that a submit has accepted is
\* waiting in a queue: every account task is collected (when a submit
\* failed: was never submitted, was refused by a pool without a thread, or
\* has returned) and every policy task is over
AllTasksOver ==
    /\ \A a \in Accounts :
          /\ \/ acct[a].pc \in {"unsubmitted", "finished", "collected"}
             \/ /\ acct[a].pc = "queued" /\ a = main.rejected
                /\ SubmittedAccounts = {}
          /\ \A i \in Items :
                \/ pol[a][i].pc \in {"none", "unsubmitted", "done"}
                \/ /\ pol[a][i].pc = "queued" /\ i = acct[a].rejected
                   /\ SubmittedPolicies(a) = {}
    /\ ~main.error => \A a \in Accounts : acct[a].pc = "collected"

====
